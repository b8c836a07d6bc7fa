---------------------------- MODULE BuddyProofs ----------------------------
(***************************************************************************)
(* The free lists and headers of BuddyAllocator, when the application      *)
(* frees only where the loop of free meets buddies of equal size           *)
(* (EqualSpec): proofs for any region size, block size and requests.       *)
(***************************************************************************)
EXTENDS Buddy, Chains, SequenceTheorems

\* Sizes of blocks, and the size of the region, in basic blocks.
Pow(k) == 2 ^ k
Top == Pow(MaxOrder)

\* B are the blocks of the region, from its start to its end and aligned to their
\* sizes, when headers have the sizes ord.
Tiling(B, ord) ==
  /\ B \subseteq Cells /\ 0 \in B
  /\ \A b \in B : /\ ord[b] \in Orders
                  /\ b + Pow(ord[b]) \in B \cup {Top}
                  /\ \E m \in Nat : b = m * Pow(ord[b])
  /\ \A b, c \in B : b < c => b + Pow(ord[b]) <= c

\* The elements of a list, and that it has none twice.
Elts(s) == {s[i] : i \in 1 .. Len(s)}
Good(s) == s \in Seq(Cells) /\ \A i, j \in 1 .. Len(s) : s[i] = s[j] => i = j
On(b, k) == b \in Elts(lists[k])

\* The lists have free blocks of their sizes, each once.
ListsOK ==
  /\ DOMAIN lists = Orders
  /\ \A k \in Orders :
       /\ Good(lists[k])
       /\ \A b \in Elts(lists[k]) : b \in Walk /\ order[b] = k /\ free[b]

\* Free blocks are on the lists, but for the one a merge begins with.
AllListed ==
  \A b \in Walk : free[b] => On(b, order[b]) \/ (op.at = "merge" /\ op.b = b)

\* What the application holds is in use and has room for its request.
HeldOK ==
  \A b \in DOMAIN held : b \in Walk /\ ~free[b] /\ held[b] <= Basic * Pow(order[b])

\* The loop of free that starts in s merges only buddies of equal size.
EqualFrom(s) ==
  LET r == Rounds(s)
  IN  \A i \in Orders : Merges(r[i]) => r[i].order[Other(r[i])] = r[i].order[r[i].b]
EqualAhead == EqualFrom(Merging(op.b, op.k, free))

\* Where an operation is: alloc has the list of the smallest size that fits, or a block in use;
\* free has a block of the size it is at, on its list unless a merge takes it off.
OpOK ==
  \/ op = Idle
  \/ /\ op.at = "split" /\ op.k \in Orders /\ op.n \in Needs
     /\ lists[op.k] # <<>> /\ Fits(op.k, op.n)
     /\ \A j \in Orders : j < op.k /\ Fits(j, op.n) => lists[j] = <<>>
  \/ /\ op.at = "return" /\ op.b \in Walk /\ ~free[op.b]
     /\ op.n <= Basic * Pow(order[op.b])
  \/ /\ op.at = "merge" /\ op.b \in Walk /\ free[op.b]
     /\ op.k \in Orders /\ order[op.b] = op.k
     /\ On(op.b, op.k) \/ Merges(Merging(op.b, op.k, free))
     /\ EqualAhead

\* The fields of an operation.
OpTyped == op \in [at : {"idle", "split", "return", "merge"}, b : Cells, k : Orders, n : Nat]

\* Two free buddies are the ones an operation is at, or a death has left them.
Paired ==
  ~torn =>
    \A k \in 0 .. MaxOrder - 1, b \in Cells : On(b, k) /\ On(BuddyOf(b, k), k) =>
      \/ op.at = "split" /\ op.k = k /\ Head(lists[k]) \in {b, BuddyOf(b, k)}
      \/ op.at = "merge" /\ op.k = k /\ op.b \in {b, BuddyOf(b, k)}

\* The inductive invariant.
BuddyInv ==
  /\ order \in [Cells -> Orders \cup {NoSize}] /\ free \in [Cells -> BOOLEAN]
  /\ OpTyped
  /\ Tiling(Walk, order) /\ ListsOK /\ AllListed /\ HeldOK /\ OpOK /\ Paired
-----------------------------------------------------------------------------
(* Powers of two.  What is known of the operator ^ is that a set of k elements has  *)
(* 2 ^ k subsets; the rest follows from that.                                       *)

\* Powers of two are positive.
LEMMA PowType ==
  ASSUME NEW k \in Nat
  PROVE  Pow(k) \in Nat /\ Pow(k) > 0
<1> DEFINE S == 1 .. k
<1>1. IsFiniteSet(S) /\ Cardinality(S) = k
  BY FS_Interval
<1> HIDE DEF S
<1>2. IsFiniteSet(SUBSET S) /\ Cardinality(SUBSET S) = Pow(k)
  BY <1>1, FS_SUBSET DEF Pow
<1>3. SUBSET S # {}
  OBVIOUS
<1>4. Cardinality(SUBSET S) \in Nat /\ Cardinality(SUBSET S) # 0
  BY <1>2, <1>3, FS_CardinalityType, FS_EmptySet
<1> QED BY <1>2, <1>4

\* The first of them.
LEMMA PowZero == Pow(0) = 1
  BY DEF Pow

\* Each is twice the one before.
LEMMA PowNext ==
  ASSUME NEW k \in Nat
  PROVE  Pow(k + 1) = 2 * Pow(k)
<1>0. PICK S : S = 1 .. k
  OBVIOUS
<1>1. IsFiniteSet(S) /\ Cardinality(S) = k /\ k + 1 \notin S
  BY <1>0, FS_Interval
<1>2. IsFiniteSet(S \cup {k + 1}) /\ Cardinality(S \cup {k + 1}) = k + 1
  BY <1>1, FS_AddElement
<1>3. IsFiniteSet(SUBSET S) /\ Cardinality(SUBSET S) = Pow(k)
  BY <1>1, FS_SUBSET DEF Pow
<1>4. /\ IsFiniteSet(SUBSET (S \cup {k + 1}))
      /\ Cardinality(SUBSET (S \cup {k + 1})) = Pow(k + 1)
  BY <1>2, FS_SUBSET DEF Pow
<1>5. PICK U : U = {A \cup {k + 1} : A \in SUBSET S}
  OBVIOUS
<1>6. PICK f : f = [A \in SUBSET S |-> A \cup {k + 1}]
  OBVIOUS
<1>7. f \in Bijection(SUBSET S, U)
  <2>1. f \in [SUBSET S -> U]
    BY <1>5, <1>6
  <2>2. ASSUME NEW A \in SUBSET S, NEW C \in SUBSET S, f[A] = f[C] PROVE A = C
    BY <1>1, <1>6, <2>2
  <2>3. \A u \in U : \E A \in SUBSET S : f[A] = u
    BY <1>5, <1>6
  <2>4. DOMAIN f = SUBSET S
    BY <1>6
  <2> QED BY <2>1, <2>2, <2>3, <2>4 DEF Bijection, Injection, Surjection, IsInjective
<1>8. IsFiniteSet(U) /\ Cardinality(U) = Pow(k)
  <2>1. ExistsBijection(SUBSET S, U)
    BY <1>7 DEF ExistsBijection
  <2> QED BY <1>3, <2>1, FS_Bijection
<1>9. SUBSET (S \cup {k + 1}) = (SUBSET S) \cup U
  <2>1. ASSUME NEW A \in SUBSET (S \cup {k + 1}) PROVE A \in (SUBSET S) \cup U
    <3>1. CASE k + 1 \in A
      <4>1. A \ {k + 1} \in SUBSET S /\ A = (A \ {k + 1}) \cup {k + 1}
        BY <3>1
      <4> QED BY <1>5, <4>1
    <3>2. CASE k + 1 \notin A
      BY <3>2
    <3> QED BY <3>1, <3>2
  <2>2. ASSUME NEW A \in (SUBSET S) \cup U PROVE A \in SUBSET (S \cup {k + 1})
    BY <1>5
  <2> QED BY <2>1, <2>2
<1>10. (SUBSET S) \cap U = {}
  BY <1>1, <1>5
<1>11. Cardinality((SUBSET S) \cup U)
        = Cardinality(SUBSET S) + Cardinality(U) - Cardinality((SUBSET S) \cap U)
  BY <1>3, <1>8, FS_Union
<1>12. Cardinality((SUBSET S) \cap U) = 0
  BY <1>10, FS_EmptySet
<1>13. Pow(k) \in Nat
  BY PowType
<1>14. Pow(k + 1) = Cardinality((SUBSET S) \cup U)
  BY <1>4, <1>9, Zenon
<1>15. Cardinality((SUBSET S) \cup U) = Pow(k) + Pow(k) - 0
  BY <1>3, <1>8, <1>11, <1>12, Zenon
<1>16. Pow(k) + Pow(k) - 0 = 2 * Pow(k)
  BY <1>13
<1> QED BY <1>14, <1>15, <1>16, Zenon

\* A size is a multiple of every smaller one.
LEMMA PowDivides ==
  ASSUME NEW j \in Nat, NEW k \in Nat, j <= k
  PROVE  \E d \in Nat : d > 0 /\ Pow(k) = d * Pow(j)
<1> DEFINE T == {i \in Nat : j <= i /\ ~\E d \in Nat : d > 0 /\ Pow(i) = d * Pow(j)}
<1>1. SUFFICES ASSUME T # {} PROVE FALSE
  OBVIOUS
<1>2. PICK x \in T : \A y \in T : x <= y
  <2>1. T \in SUBSET Nat
    OBVIOUS
  <2> HIDE DEF T
  <2> QED BY <1>1, <2>1, Least
<1>3. x \in Nat /\ j <= x
  BY <1>2
<1>4. x # j
  <2>1. Pow(j) = 1 * Pow(j)
    BY PowType
  <2> QED BY <1>2, <2>1
<1>5. PICK y \in Nat : y = x - 1
  BY <1>3, <1>4
<1>6. y \notin T
  <2> HIDE DEF T
  <2> QED BY <1>2, <1>3, <1>5
<1>7. PICK d \in Nat : d > 0 /\ Pow(y) = d * Pow(j)
  BY <1>3, <1>4, <1>5, <1>6
<1>8. y + 1 = x /\ Pow(y + 1) = 2 * Pow(y)
  BY <1>3, <1>5, PowNext
<1>9. Pow(x) = (2 * d) * Pow(j)
  <2>1. Pow(j) \in Nat
    BY PowType
  <2>2. 2 * (d * Pow(j)) = (2 * d) * Pow(j)
    BY <2>1
  <2> QED BY <1>7, <1>8, <2>2
<1>10. 2 * d \in Nat /\ 2 * d > 0
  BY <1>7
<1> QED BY <1>2, <1>9, <1>10

\* They grow.
LEMMA PowGrows ==
  ASSUME NEW j \in Nat, NEW k \in Nat, j <= k
  PROVE  Pow(j) <= Pow(k)
<1>1. PICK d \in Nat : d > 0 /\ Pow(k) = d * Pow(j)
  BY PowDivides
<1>2. PICK p \in Nat : p = Pow(j)
  BY PowType
<1>3. p <= d * p
  BY <1>1
<1> QED BY <1>1, <1>2, <1>3
-----------------------------------------------------------------------------
(* Aligned blocks and their buddies *)

\* Different multiples of p are at least p apart.
LEMMA Multiples ==
  ASSUME NEW p \in Nat, NEW m \in Int, NEW n \in Int, m < n
  PROVE  m * p + p <= n * p
<1>1. PICK d \in Nat : n = m + 1 + d
  <2>1. n - (m + 1) \in Nat /\ n = m + 1 + (n - (m + 1))
    OBVIOUS
  <2> QED BY <2>1
<1>2. n * p = (m + 1 + d) * p
  BY <1>1
<1>3. (m + 1 + d) * p = m * p + p + d * p
  OBVIOUS
<1>4. d * p >= 0 /\ d * p \in Int /\ m * p \in Int
  OBVIOUS
<1> QED BY <1>2, <1>3, <1>4

\* Dividing a multiple.
LEMMA ExactDiv ==
  ASSUME NEW p \in Nat, p > 0, NEW m \in Nat
  PROVE  (m * p) \div p = m
<1>1. PICK x \in Nat : x = m * p
  OBVIOUS
<1>2. PICK q \in Int : q = x \div p
  OBVIOUS
<1>3. q * p <= x /\ x < q * p + p
  BY <1>2
<1>4. ~(q < m)
  BY <1>1, <1>3, Multiples
<1>5. ~(m < q)
  BY <1>1, <1>3, Multiples
<1> QED BY <1>1, <1>2, <1>4, <1>5

\* A block and its buddy are the halves of an aligned block of twice their size.
LEMMA BuddyHalves ==
  ASSUME NEW k \in Nat, NEW m \in Nat
  PROVE  \E q \in Nat : \/ /\ m * Pow(k) = q * Pow(k + 1)
                           /\ BuddyOf(m * Pow(k), k) = q * Pow(k + 1) + Pow(k)
                        \/ /\ m * Pow(k) = q * Pow(k + 1) + Pow(k)
                           /\ BuddyOf(m * Pow(k), k) = q * Pow(k + 1)
<1>1. PICK p \in Nat : p = Pow(k) /\ p > 0
  BY PowType
<1>2. Pow(k + 1) = 2 * p
  BY <1>1, PowNext
<1>3. PICK x \in Nat : x = m * p
  OBVIOUS
<1>4. BuddyOf(x, k) = IF (m % 2) = 0 THEN x + p ELSE x - p
  <2>1. BuddyOf(x, k) = IF ((x \div p) % 2) = 0 THEN x + p ELSE x - p
    BY <1>1 DEF BuddyOf, Pow
  <2>2. x \div p = m
    BY <1>1, <1>3, ExactDiv
  <2> QED BY <2>1, <2>2
<1>5. PICK q \in Nat : m = 2 * q \/ m = 2 * q + 1
  <2>1. m \div 2 \in Nat /\ (m = 2 * (m \div 2) \/ m = 2 * (m \div 2) + 1)
    OBVIOUS
  <2> QED BY <2>1
<1>6. CASE m = 2 * q
  <2>1. (m % 2) = 0
    BY <1>6
  <2>2. x = q * (2 * p)
    <3>1. (2 * q) * p = q * (2 * p)
      OBVIOUS
    <3> QED BY <1>3, <1>6, <3>1
  <2>3. BuddyOf(x, k) = q * (2 * p) + p
    BY <1>4, <2>1, <2>2
  <2> QED BY <1>1, <1>2, <1>3, <2>2, <2>3
<1>7. CASE m = 2 * q + 1
  <2>1. (m % 2) # 0
    BY <1>7
  <2>2. x = q * (2 * p) + p
    <3>1. (2 * q + 1) * p = q * (2 * p) + p
      OBVIOUS
    <3> QED BY <1>3, <1>7, <3>1
  <2>3. BuddyOf(x, k) = q * (2 * p)
    <3>1. x - p = q * (2 * p)
      BY <2>2
    <3> QED BY <1>4, <2>1, <3>1
  <2> QED BY <1>1, <1>2, <1>3, <2>2, <2>3
<1> QED BY <1>5, <1>6, <1>7

\* The places for headers, as numbers.
LEMMA CellsAre == Cells = 0 .. Top - 1 /\ Top \in Nat /\ Top > 0 /\ Orders = 0 .. MaxOrder
  BY BuddyAssumption, PowType DEF Cells, Top, Pow, Orders

\* A tiling leaves no cell out.
LEMMA Cover ==
  ASSUME NEW B, NEW ord, Tiling(B, ord), NEW c \in Cells
  PROVE  \E b \in B : b <= c /\ c < b + Pow(ord[b])
<1>0. /\ c \in Nat /\ c < Top /\ Top \in Nat
      /\ \A b \in B : b \in Nat /\ ord[b] \in Nat /\ Pow(ord[b]) \in Nat /\ Pow(ord[b]) > 0
  <2>1. c \in Nat /\ c < Top /\ Top \in Nat
    BY CellsAre
  <2>2. ASSUME NEW b \in B
        PROVE  b \in Nat /\ ord[b] \in Nat /\ Pow(ord[b]) \in Nat /\ Pow(ord[b]) > 0
    <3>1. b \in Nat /\ ord[b] \in Nat
      BY CellsAre, BuddyAssumption DEF Tiling
    <3> QED BY <3>1, PowType
  <2> QED BY <2>1, <2>2
<1> DEFINE T == {c - b : b \in {x \in B : x <= c}}
<1>1. T \in SUBSET Nat /\ c - 0 \in T
  BY <1>0 DEF Tiling
<1>2. PICK y \in T : \A z \in T : y <= z
  <2> HIDE DEF T
  <2> QED BY <1>1, Least
<1>3. PICK b \in B : b <= c /\ y = c - b
  BY <1>2
<1>4. PICK n \in Nat : n = b + Pow(ord[b]) /\ n > b
  BY <1>0
<1>5. CASE n <= c
  <2>1. n \in B
    BY <1>0, <1>4, <1>5 DEF Tiling
  <2>2. c - n \in T
    BY <1>5, <2>1
  <2>3. y <= c - n
    <3> HIDE DEF T
    <3> QED BY <1>2, <2>2
  <2> QED BY <1>0, <1>3, <1>4, <2>3
<1>6. CASE ~(n <= c)
  BY <1>0, <1>3, <1>4, <1>6
<1> QED BY <1>5, <1>6

\* Where a block of a tiling is, as far as numbers go.
LEMMA TileFacts ==
  ASSUME NEW B, NEW ord, Tiling(B, ord), NEW b \in B
  PROVE  /\ b \in Nat /\ b < Top /\ ord[b] \in Nat /\ ord[b] <= MaxOrder /\ MaxOrder \in Nat
         /\ Pow(ord[b]) \in Nat /\ Pow(ord[b]) > 0 /\ b + Pow(ord[b]) <= Top
         /\ \E m \in Nat : b = m * Pow(ord[b])
<1>1. b \in Nat /\ b < Top /\ ord[b] \in Nat /\ ord[b] <= MaxOrder
  BY CellsAre DEF Tiling
<1>2. Pow(ord[b]) \in Nat /\ Pow(ord[b]) > 0
  BY <1>1, PowType
<1>3. b + Pow(ord[b]) <= Top
  <2>1. b + Pow(ord[b]) \in B \cup {Top}
    BY DEF Tiling
  <2>2. \A x \in B : x <= Top
    BY CellsAre DEF Tiling
  <2> QED BY <2>1, <2>2, CellsAre
<1> QED BY <1>1, <1>2, <1>3, BuddyAssumption DEF Tiling

\* The buddy of a block is the start of a block that is not larger: getbuddy never
\* returns an address where a stale header is.
LEMMA BuddyIsBlock ==
  ASSUME NEW B, NEW ord, Tiling(B, ord), NEW b \in B, ord[b] < MaxOrder
  PROVE  /\ BuddyOf(b, ord[b]) \in B /\ ord[BuddyOf(b, ord[b])] <= ord[b]
         /\ BuddyOf(b, ord[b]) # b
<1>1. PICK k \in Nat : k = ord[b] /\ k + 1 <= MaxOrder
  BY TileFacts
<1>2. PICK m \in Nat : b = m * Pow(k)
  BY <1>1, TileFacts
<1>3. PICK p \in Nat : p = Pow(k) /\ p > 0
  BY PowType
<1>4. PICK r \in Nat : r = Pow(k + 1) /\ r = 2 * p
  BY <1>3, PowNext
<1>5. PICK o : o = BuddyOf(b, k)
  OBVIOUS
<1>6. PICK q \in Nat : \/ b = q * r /\ o = q * r + p
                       \/ b = q * r + p /\ o = q * r
  BY <1>2, <1>3, <1>4, <1>5, BuddyHalves
<1>7. PICK base \in Nat : base = q * r
  OBVIOUS
<1>8. /\ o \in Nat /\ b \in Nat /\ o # b /\ base <= o /\ base <= b /\ o < base + r /\ b < base + r
      /\ o = base \/ o = base + p
  BY <1>3, <1>4, <1>6, <1>7
<1>9. base + r <= Top
  <2>0. PICK i \in Nat : i = k + 1 /\ i <= MaxOrder /\ MaxOrder \in Nat
    BY <1>1, BuddyAssumption
  <2>1. PICK d \in Nat : Top = d * r
    BY <1>4, <2>0, PowDivides DEF Top
  <2>2. b < Top
    BY TileFacts
  <2>3. q < d
    <3>1. ASSUME d <= q PROVE FALSE
      <4>1. d * r <= q * r
        <5>1. CASE d = q
          BY <5>1
        <5>2. CASE d < q
          BY <5>2, Multiples
        <5> QED BY <3>1, <5>1, <5>2
      <4> QED BY <1>7, <1>8, <2>1, <2>2, <4>1
    <3> QED BY <3>1
  <2> QED BY <1>7, <2>1, <2>3, Multiples
<1>10. o \in Cells
  BY <1>8, <1>9, CellsAre
<1>11. PICK c \in B : c <= o /\ o < c + Pow(ord[c])
  BY <1>10, Cover
<1>12. PICK j \in Nat, n \in Nat : j = ord[c] /\ c = n * Pow(j) /\ j <= MaxOrder /\ c \in Nat
  BY TileFacts
<1>13. PICK s \in Nat : s = Pow(j) /\ s > 0
  BY PowType
<1>a. c <= o /\ o < c + s
  BY <1>11, <1>12, <1>13
<1>14. ~(j > k)
  <2>1. SUFFICES ASSUME j > k PROVE FALSE
    OBVIOUS
  <2>0. PICK i \in Nat : i = k + 1 /\ i <= j
    BY <2>1
  <2>2. PICK e \in Nat : s = e * r
    BY <1>4, <1>13, <2>0, PowDivides
  <2>3. c = (n * e) * r /\ c + s = (n * e + e) * r
    <3>1. n * (e * r) = (n * e) * r /\ n * (e * r) + e * r = (n * e + e) * r
      OBVIOUS
    <3> QED BY <1>12, <1>13, <2>2, <3>1
  <2>4. PICK u \in Nat, v \in Nat : u = n * e /\ v = n * e + e
    OBVIOUS
  <2>5. u <= q
    <3>1. ASSUME q < u PROVE FALSE
      <4>1. q * r + r <= u * r
        BY <3>1, Multiples
      <4> QED BY <1>7, <1>8, <1>a, <2>3, <2>4, <4>1
    <3> QED BY <3>1
  <2>6. q < v
    <3>1. ASSUME v <= q PROVE FALSE
      <4>1. v * r <= q * r
        <5>1. CASE v = q
          BY <5>1
        <5>2. CASE v < q
          BY <5>2, Multiples
        <5> QED BY <3>1, <5>1, <5>2
      <4> QED BY <1>7, <1>8, <1>a, <2>3, <2>4, <4>1
    <3> QED BY <3>1
  <2>7. c <= base
    <3>1. CASE u = q
      BY <1>7, <2>3, <2>4, <3>1
    <3>2. CASE u < q
      <4>1. u * r + r <= q * r
        BY <3>2, Multiples
      <4> QED BY <1>4, <1>7, <2>3, <2>4, <4>1
    <3> QED BY <2>5, <3>1, <3>2
  <2>8. base + r <= c + s
    BY <1>7, <2>3, <2>4, <2>6, Multiples
  <2>9. c <= b /\ b < c + s
    BY <1>8, <1>12, <1>13, <2>7, <2>8
  <2>10. c = b
    <3>1. c < b => c + Pow(ord[c]) <= b
      BY DEF Tiling
    <3>2. Pow(ord[c]) = s /\ c \in Nat /\ b \in Nat
      BY <1>8, <1>12, <1>13
    <3> QED BY <2>9, <3>1, <3>2
  <2>11. j = k
    BY <1>1, <1>12, <2>10
  <2> QED BY <2>1, <2>11
<1>15. o = c
  <2>1. PICK e \in Nat : p = e * s
    BY <1>3, <1>13, <1>14, PowDivides
  <2>2. PICK w \in Nat : o = w * s
    <3>1. r = (2 * e) * s
      BY <1>4, <2>1
    <3>2. base = (q * (2 * e)) * s
      <4>1. q * ((2 * e) * s) = (q * (2 * e)) * s
        OBVIOUS
      <4> QED BY <1>7, <3>1, <4>1
    <3>3. base + p = (q * (2 * e) + e) * s
      <4>1. (q * (2 * e)) * s + e * s = (q * (2 * e) + e) * s
        OBVIOUS
      <4> QED BY <2>1, <3>2, <4>1
    <3>4. q * (2 * e) \in Nat /\ q * (2 * e) + e \in Nat
      OBVIOUS
    <3> QED BY <1>8, <3>2, <3>3, <3>4
  <2>3. ~(n < w)
    <3>1. ASSUME n < w PROVE FALSE
      <4>1. n * s + s <= w * s
        BY <3>1, Multiples
      <4> QED BY <1>a, <1>12, <1>13, <2>2, <4>1
    <3> QED BY <3>1
  <2>4. ~(w < n)
    <3>1. ASSUME w < n PROVE FALSE
      <4>1. w * s + s <= n * s
        BY <3>1, Multiples
      <4> QED BY <1>a, <1>12, <1>13, <2>2, <4>1
    <3> QED BY <3>1
  <2>5. n = w
    BY <2>3, <2>4
  <2> QED BY <1>12, <1>13, <2>2, <2>5
<1> QED BY <1>1, <1>5, <1>8, <1>12, <1>14, <1>15
-----------------------------------------------------------------------------
(* The walk of the recovering constructor *)

\* The walk of the constructor before and after a step.
LEMMA WalkNow == Walk = WalkOf(order) /\ Walk' = WalkOf(order')
  BY DEF Walk

\* The last block of a set of blocks.
LEMMA MaxCell ==
  ASSUME NEW S \in SUBSET Cells, S # {}
  PROVE  Max(S) \in S /\ \A c \in S : c <= Max(S)
<1> DEFINE T == {Top - c : c \in S}
<1>0. \A c \in S : Top - c \in Nat
  BY CellsAre
<1>1. T \in SUBSET Nat /\ T # {}
  BY <1>0
<1>2. PICK y \in T : \A z \in T : y <= z
  <2> HIDE DEF T
  <2> QED BY <1>1, Least
<1>3. PICK b \in S : y = Top - b
  BY <1>2
<1>4. ASSUME NEW c \in S PROVE b >= c
  <2>1. Top - c \in T
    OBVIOUS
  <2>2. y <= Top - c
    <3> HIDE DEF T
    <3> QED BY <1>2, <2>1
  <2> QED BY <1>3, <2>2, CellsAre
<1>5. \E x \in S : \A c \in S : x >= c
  BY <1>4
<1>6. Max(S) \in S /\ \A c \in S : Max(S) >= c
  BY <1>5 DEF Max
<1> QED BY <1>6, CellsAre

\* One step of the walk.
Ahead(S, ord) == S \cup ({Max(S) + SizeOf(ord[Max(S)])} \cap Cells)

\* The size a header has.
LEMMA SizeIs ==
  ASSUME NEW k \in Nat
  PROVE  SizeOf(k) = Pow(k)
  BY DEF SizeOf, Pow, NoSize

\* As much of the walk as i steps have seen.
Met(S, i, B) ==
  /\ S \subseteq B /\ 0 \in S
  /\ \A b \in S, c \in B : c <= b => c \in S
  /\ S = B \/ \E b \in S : b >= i

\* One step from header to header.
LEMMA WalkStep ==
  ASSUME NEW B, NEW ord, Tiling(B, ord), NEW i \in Nat, NEW S, Met(S, i, B)
  PROVE  Met(Ahead(S, ord), i + 1, B)
<1>1. S \in SUBSET Cells /\ S # {} /\ S \subseteq B
  BY DEF Met, Tiling
<1>2. PICK last \in S : last = Max(S) /\ \A c \in S : c <= last
  BY <1>1, MaxCell
<1>3. /\ last \in B /\ last \in Nat /\ ord[last] \in Nat /\ Pow(ord[last]) \in Nat
      /\ Pow(ord[last]) > 0
  BY <1>1, <1>2, TileFacts
<1>4. PICK n \in Nat : n = last + Pow(ord[last]) /\ n > last
  BY <1>3
<1>5. Ahead(S, ord) = S \cup ({n} \cap Cells)
  BY <1>2, <1>3, <1>4, SizeIs DEF Ahead
<1>6. n \in B \cup {Top} /\ \A c \in B : c \in Nat /\ (last < c => n <= c)
  BY <1>3, <1>4, TileFacts DEF Tiling
<1>7. \A c \in B : c < n => c \in S
  <2>1. ASSUME NEW c \in B, c < n PROVE c \in S
    <3>1. c <= last
      BY <1>3, <1>6, <2>1
    <3> QED BY <1>2, <3>1 DEF Met
  <2> QED BY <2>1
<1>8. CASE n \in Cells
  <2>1. n \in B /\ Ahead(S, ord) = S \cup {n}
    BY <1>5, <1>6, <1>8, CellsAre
  <2>2. \A b \in S \cup {n}, c \in B : c <= b => c \in S \cup {n}
    <3>1. ASSUME NEW b \in S \cup {n}, NEW c \in B, c <= b PROVE c \in S \cup {n}
      <4>1. CASE b \in S
        BY <3>1, <4>1 DEF Met
      <4>2. CASE b = n
        BY <1>6, <1>7, <3>1, <4>2
      <4> QED BY <4>1, <4>2
    <3> QED BY <3>1
  <2>3. S = B \/ n >= i + 1
    <3>1. ASSUME NEW b \in S, b >= i PROVE n >= i + 1
      <4>1. b <= last /\ b \in Nat
        BY <1>1, <1>2, <1>6
      <4> QED BY <1>3, <1>4, <3>1, <4>1
    <3> QED BY <3>1 DEF Met
  <2>4. S \cup {n} \subseteq B /\ 0 \in S \cup {n}
    BY <1>1, <2>1 DEF Met
  <2>5. S \cup {n} = B \/ \E b \in S \cup {n} : b >= i + 1
    BY <2>3, <2>4
  <2> QED BY <2>1, <2>2, <2>4, <2>5 DEF Met
<1>9. CASE n \notin Cells
  <2>1. n = Top /\ Ahead(S, ord) = S
    BY <1>5, <1>6, <1>9 DEF Tiling
  <2>2. S = B
    <3>1. \A c \in B : c < n
      BY <2>1, TileFacts
    <3> QED BY <1>1, <1>7, <3>1
  <2> QED BY <2>1, <2>2 DEF Met
<1> QED BY <1>8, <1>9

\* The walk meets exactly the blocks of the tiling.
LEMMA WalkIs ==
  ASSUME NEW B, NEW ord, Tiling(B, ord)
  PROVE  WalkOf(ord) = B
<1> DEFINE step(g) == [i \in 0 .. 2 ^ MaxOrder |->
              IF i = 0 THEN {0}
              ELSE LET last == Max(g[i - 1])
                   IN  g[i - 1] \cup ({last + SizeOf(ord[last])} \cap Cells)]
           f == CHOOSE g : g = step(g)
<1>0. PICK N \in Nat : N = 2 ^ MaxOrder /\ N = Top
  BY CellsAre DEF Top, Pow
<1>1. WalkOf(ord) = f[N]
  <2>1. WalkOf(ord) = f[2 ^ MaxOrder]
    BY DEF WalkOf
  <2> HIDE DEF f
  <2> QED BY <1>0, <2>1
<1>2. PICK X : X = SUBSET Cells
  OBVIOUS
<1>3. PICK F : F = [S \in X |-> Ahead(S, ord)]
  OBVIOUS
<1>4. F \in [X -> X]
  <2>1. \A S \in X : Ahead(S, ord) \in X
    BY <1>2 DEF Ahead
  <2> QED BY <1>3, <2>1
<1>5. PICK a \in X : a = {0}
  <2>1. {0} \in SUBSET Cells
    BY CellsAre
  <2> QED BY <1>2, <2>1
<1>6. \E g : g = step(g)
  <2>1. PICK g : Iterated(g, F, a, N, X)
    BY <1>4, Iterates
  <2>2. g \in [0 .. N -> X] /\ g[0] = {0} /\ \A i \in 1 .. N : g[i] = F[g[i - 1]]
    BY <1>5, <2>1 DEF Iterated
  <2>3. \A i \in 0 .. N : g[i] = IF i = 0 THEN {0} ELSE Ahead(g[i - 1], ord)
    <3> TAKE i \in 0 .. N
    <3>1. CASE i = 0
      BY <2>2, <3>1
    <3>2. CASE i # 0
      <4>1. i \in 1 .. N /\ i - 1 \in 0 .. N
        BY <3>2
      <4>2. g[i - 1] \in X
        BY <2>2, <4>1
      <4> QED BY <1>3, <2>2, <3>2, <4>1, <4>2
    <3> QED BY <3>1, <3>2
  <2>4. g = step(g)
    BY <1>0, <2>2, <2>3 DEF Ahead
  <2> QED BY <2>4
<1>7. f = step(f)
  <2> HIDE DEF step
  <2> QED BY <1>6
<1>8. \A i \in 0 .. N : f[i] = IF i = 0 THEN {0} ELSE Ahead(f[i - 1], ord)
  <2> HIDE DEF f
  <2> QED BY <1>0, <1>7 DEF Ahead
<1> HIDE DEF f, step
<1> DEFINE T == {i \in 0 .. N : ~Met(f[i], i, B)}
<1>9. T = {}
  <2>1. SUFFICES ASSUME T # {} PROVE FALSE
    OBVIOUS
  <2>2. PICK x \in T : \A y \in T : x <= y
    <3>1. T \in SUBSET Nat
      OBVIOUS
    <3> HIDE DEF T
    <3> QED BY <2>1, <3>1, Least
  <2>3. Met({0}, 0, B)
    <3>1. \A c \in B : c \in Nat
      BY TileFacts
    <3>2. 0 \in B
      BY DEF Tiling
    <3> QED BY <3>1, <3>2 DEF Met
  <2>4. f[0] = {0} /\ x \in 0 .. N
    BY <1>8, <2>2
  <2>5. x # 0
    BY <2>2, <2>3, <2>4
  <2>6. PICK y \in Nat : y = x - 1 /\ y + 1 = x
    BY <2>4, <2>5
  <2>7. y \in 0 .. N /\ y \notin T
    <3>1. y \in 0 .. N /\ y < x
      BY <2>4, <2>6
    <3> HIDE DEF T
    <3> QED BY <2>2, <2>6, <3>1
  <2>8. Met(f[y], y, B)
    BY <2>7
  <2>9. Met(Ahead(f[y], ord), y + 1, B)
    BY <2>8, WalkStep
  <2>10. f[x] = Ahead(f[y], ord)
    BY <1>8, <2>4, <2>5, <2>6
  <2> QED BY <2>2, <2>6, <2>9, <2>10
<1>10. Met(f[N], N, B)
  <2>1. N \in 0 .. N
    OBVIOUS
  <2> QED BY <1>9, <2>1
<1>11. ~\E b \in f[N] : b >= N
  <2>1. \A b \in B : b \in Nat /\ b < N
    BY <1>0, TileFacts
  <2> QED BY <1>10, <2>1 DEF Met
<1> QED BY <1>1, <1>10, <1>11 DEF Met
-----------------------------------------------------------------------------
(* Lists *)

\* The empty list.
LEMMA GoodEmpty ==
  /\ Good(<<>>) /\ Elts(<<>>) = {}
  /\ \A s : Good(s) /\ Elts(s) = {} => s = <<>>
<1>1. Good(<<>>) /\ Elts(<<>>) = {}
  BY DEF Good, Elts
<1>2. ASSUME NEW s, Good(s), Elts(s) = {} PROVE s = <<>>
  <2>1. s \in Seq(Cells) /\ Len(s) \in Nat
    BY <1>2 DEF Good
  <2>2. CASE Len(s) = 0
    BY <2>1, <2>2
  <2>3. CASE Len(s) # 0
    <3>1. 1 \in 1 .. Len(s)
      BY <2>1, <2>3
    <3>2. s[1] \in Elts(s)
      BY <3>1 DEF Elts
    <3> QED BY <1>2, <3>2
  <2> QED BY <2>2, <2>3
<1> QED BY <1>1, <1>2

\* LinkedList::insert
LEMMA GoodCons ==
  ASSUME NEW s, Good(s), NEW b \in Cells, b \notin Elts(s)
  PROVE  Good(<<b>> \o s) /\ Elts(<<b>> \o s) = Elts(s) \cup {b}
<1>1. s \in Seq(Cells) /\ Len(s) \in Nat
  BY DEF Good
<1>2. PICK r : r = <<b>> \o s
  OBVIOUS
<1>3. /\ r \in Seq(Cells) /\ Len(r) = Len(s) + 1
      /\ r[1] = b /\ \A i \in 1 .. Len(s) : r[i + 1] = s[i]
  BY <1>1, <1>2
<1>4. \A i \in 2 .. Len(s) + 1 : r[i] = s[i - 1] /\ i - 1 \in 1 .. Len(s)
  <2> TAKE i \in 2 .. Len(s) + 1
  <2>1. i - 1 \in 1 .. Len(s) /\ (i - 1) + 1 = i
    BY <1>1
  <2> QED BY <1>3, <2>1
<1>5. \A i \in 1 .. Len(r) : i = 1 \/ i \in 2 .. Len(s) + 1
  BY <1>1, <1>3
<1>6. ASSUME NEW i \in 1 .. Len(r), NEW j \in 1 .. Len(r), r[i] = r[j] PROVE i = j
  <2>1. \A m \in 2 .. Len(s) + 1 : r[m] # b
    BY <1>4 DEF Elts
  <2>2. CASE i = 1 \/ j = 1
    BY <1>3, <1>5, <1>6, <2>1, <2>2
  <2>3. CASE i # 1 /\ j # 1
    <3>1. i \in 2 .. Len(s) + 1 /\ j \in 2 .. Len(s) + 1
      BY <1>5, <2>3
    <3>2. s[i - 1] = s[j - 1] /\ i - 1 \in 1 .. Len(s) /\ j - 1 \in 1 .. Len(s)
      BY <1>4, <1>6, <3>1
    <3>3. i - 1 = j - 1
      BY <3>2 DEF Good
    <3> QED BY <3>1, <3>3
  <2> QED BY <2>2, <2>3
<1>7. Elts(r) = Elts(s) \cup {b}
  <2>1. ASSUME NEW i \in 1 .. Len(r) PROVE r[i] \in Elts(s) \cup {b}
    BY <1>3, <1>4, <1>5 DEF Elts
  <2>2. ASSUME NEW i \in 1 .. Len(s) PROVE s[i] \in Elts(r)
    <3>1. i + 1 \in 1 .. Len(r) /\ r[i + 1] = s[i]
      BY <1>1, <1>3
    <3> QED BY <3>1 DEF Elts
  <2>3. b \in Elts(r)
    <3>1. 1 \in 1 .. Len(r)
      BY <1>1, <1>3
    <3> QED BY <1>3, <3>1 DEF Elts
  <2> QED BY <2>1, <2>2, <2>3 DEF Elts
<1> QED BY <1>2, <1>3, <1>6, <1>7 DEF Good

\* A list after pop_front.
LEMMA GoodTail ==
  ASSUME NEW s, Good(s), s # <<>>
  PROVE  /\ Head(s) \in Elts(s) /\ Good(Tail(s))
         /\ Elts(Tail(s)) = Elts(s) \ {Head(s)}
<1>1. s \in Seq(Cells) /\ Len(s) \in Nat /\ Len(s) > 0 /\ Head(s) = s[1]
  BY DEF Good
<1>2. PICK r : r = Tail(s)
  OBVIOUS
<1>3. r \in Seq(Cells) /\ Len(r) = Len(s) - 1 /\ \A i \in 1 .. Len(r) : r[i] = s[i + 1]
  BY <1>1, <1>2
<1>4. \A i \in 1 .. Len(r) : i + 1 \in 1 .. Len(s) /\ i + 1 # 1
  BY <1>1, <1>3
<1>5. 1 \in 1 .. Len(s)
  BY <1>1
<1>6. ASSUME NEW i \in 1 .. Len(r), NEW j \in 1 .. Len(r), r[i] = r[j] PROVE i = j
  <2>1. i + 1 = j + 1
    BY <1>3, <1>4, <1>6 DEF Good
  <2> QED BY <2>1
<1>7. Elts(r) = Elts(s) \ {s[1]}
  <2>1. ASSUME NEW i \in 1 .. Len(r) PROVE r[i] \in Elts(s) \ {s[1]}
    <3>1. r[i] = s[i + 1] /\ s[i + 1] # s[1]
      BY <1>3, <1>4, <1>5 DEF Good
    <3> QED BY <1>4, <3>1 DEF Elts
  <2>2. ASSUME NEW i \in 1 .. Len(s), s[i] # s[1] PROVE s[i] \in Elts(r)
    <3>1. i - 1 \in 1 .. Len(r) /\ (i - 1) + 1 = i
      BY <1>1, <1>3, <2>2
    <3>2. r[i - 1] = s[i]
      BY <1>3, <3>1
    <3> QED BY <3>1, <3>2 DEF Elts
  <2> QED BY <2>1, <2>2 DEF Elts
<1> QED BY <1>1, <1>2, <1>3, <1>5, <1>6, <1>7 DEF Good, Elts

\* The list of the two halves that split puts on it.
LEMMA GoodPair ==
  ASSUME NEW b \in Cells, NEW c \in Cells, b # c
  PROVE  /\ Good(<<b, c>>) /\ Elts(<<b, c>>) = {b, c} /\ Head(<<b, c>>) = b
         /\ <<b, c>> # <<>>
  BY DEF Good, Elts

\* LinkedList::remove
LEMMA GoodWithout ==
  ASSUME NEW s, Good(s), NEW b
  PROVE  Good(Without(s, b)) /\ Elts(Without(s, b)) = Elts(s) \ {b}
<1>1. s \in Seq(Cells) /\ Len(s) \in Nat /\ DOMAIN s = 1 .. Len(s)
  BY DEF Good
<1>2. ToSet(s) = Elts(s)
  BY <1>1 DEF ToSet, Elts
<1>3. CASE b \notin Elts(s)
  BY <1>2, <1>3 DEF Without
<1>4. CASE b \in Elts(s)
  <2>1. PICK p \in 1 .. Len(s) : s[p] = b /\ Without(s, b) = RemoveAt(s, p)
    <3>1. \E i \in DOMAIN s : s[i] = b
      BY <1>1, <1>4 DEF Elts
    <3> QED BY <1>1, <1>2, <1>4, <3>1 DEF Without
  <2>2. PICK r : r = RemoveAt(s, p)
    OBVIOUS
  <2>3. /\ r \in Seq(Cells) /\ Len(r) = Len(s) - 1
        /\ \A i \in 1 .. Len(r) : r[i] = IF i < p THEN s[i] ELSE s[i + 1]
    <3>1. PICK u, v : u = SubSeq(s, 1, p - 1) /\ v = SubSeq(s, p + 1, Len(s))
      OBVIOUS
    <3>a. PICK m \in Int, n \in Int : m = p - 1 /\ n = p + 1 /\ Len(s) \in Int
      BY <1>1
    <3>b. \A i \in 1 .. Len(s) : s[i] \in Cells
      BY <1>1
    <3>c. (\A i \in 1 .. m : s[i] \in Cells) /\ (\A i \in n .. Len(s) : s[i] \in Cells)
      <4>1. \A i \in 1 .. m : i \in 1 .. Len(s)
        BY <1>1, <3>a
      <4>2. \A i \in n .. Len(s) : i \in 1 .. Len(s)
        BY <1>1, <3>a
      <4> QED BY <3>b, <4>1, <4>2
    <3>2. u \in Seq(Cells) /\ Len(u) = p - 1 /\ \A i \in 1 .. p - 1 : u[i] = s[i]
      <4>1. /\ u \in Seq(Cells) /\ Len(u) = IF 1 <= m THEN m - 1 + 1 ELSE 0
            /\ \A i \in 1 .. m - 1 + 1 : u[i] = s[1 + i - 1]
        BY <3>1, <3>a, <3>c, SubSeqProperties
      <4>2. Len(u) = p - 1
        BY <3>a, <4>1
      <4>3. ASSUME NEW i \in 1 .. p - 1 PROVE u[i] = s[i]
        <5>1. i \in 1 .. m - 1 + 1 /\ 1 + i - 1 = i
          BY <3>a
        <5> QED BY <4>1, <5>1
      <4> QED BY <4>1, <4>2, <4>3
    <3>3. /\ v \in Seq(Cells) /\ Len(v) = Len(s) - p
          /\ \A i \in 1 .. Len(s) - p : v[i] = s[p + i]
      <4>1. /\ v \in Seq(Cells) /\ Len(v) = IF n <= Len(s) THEN Len(s) - n + 1 ELSE 0
            /\ \A i \in 1 .. Len(s) - n + 1 : v[i] = s[n + i - 1]
        BY <3>1, <3>a, <3>c, SubSeqProperties
      <4>2. Len(v) = Len(s) - p
        BY <3>a, <4>1
      <4>3. ASSUME NEW i \in 1 .. Len(s) - p PROVE v[i] = s[p + i]
        <5>1. i \in 1 .. Len(s) - n + 1 /\ n + i - 1 = p + i
          BY <3>a
        <5> QED BY <4>1, <5>1
      <4> QED BY <4>1, <4>2, <4>3
    <3>4. r = u \o v
      BY <2>2, <3>1 DEF RemoveAt
    <3>5. /\ r \in Seq(Cells) /\ Len(r) = Len(s) - 1
          /\ \A i \in 1 .. Len(r) : r[i] = IF i <= Len(u) THEN u[i] ELSE v[i - Len(u)]
      <4>1. /\ r \in Seq(Cells) /\ Len(r) = Len(u) + Len(v)
            /\ \A i \in 1 .. Len(u) + Len(v) : r[i] = IF i <= Len(u) THEN u[i] ELSE v[i - Len(u)]
        BY <3>2, <3>3, <3>4, ConcatProperties
      <4>2. Len(u) + Len(v) = Len(s) - 1
        BY <1>1, <3>2, <3>3
      <4> QED BY <4>1, <4>2
    <3>6. ASSUME NEW i \in 1 .. Len(r) PROVE r[i] = IF i < p THEN s[i] ELSE s[i + 1]
      <4>1. CASE i < p
        <5>1. i \in 1 .. p - 1 /\ i <= Len(u)
          BY <3>2, <4>1
        <5> QED BY <3>2, <3>5, <4>1, <5>1
      <4>2. CASE ~(i < p)
        <5>1. /\ ~(i <= Len(u)) /\ i - Len(u) \in 1 .. Len(s) - p
              /\ p + (i - Len(u)) = i + 1
          BY <1>1, <3>2, <3>5, <4>2
        <5> QED BY <3>3, <3>5, <4>2, <5>1
      <4> QED BY <4>1, <4>2
    <3> QED BY <3>5, <3>6
  <2> DEFINE pos(i) == IF i < p THEN i ELSE i + 1
  <2>4. ASSUME NEW i \in 1 .. Len(r)
        PROVE  pos(i) \in 1 .. Len(s) /\ pos(i) # p /\ r[i] = s[pos(i)]
    <3>1. i \in 1 .. Len(s) - 1
      BY <2>3
    <3>2. CASE i < p
      BY <1>1, <2>3, <3>1, <3>2
    <3>3. CASE ~(i < p)
      <4>1. pos(i) = i + 1 /\ i + 1 \in 1 .. Len(s) /\ i + 1 # p
        BY <1>1, <3>1, <3>3
      <4> QED BY <2>3, <3>3, <4>1
    <3> QED BY <3>2, <3>3
  <2>5. ASSUME NEW i \in 1 .. Len(r), NEW j \in 1 .. Len(r), r[i] = r[j] PROVE i = j
    <3>1. pos(i) = pos(j)
      BY <2>4, <2>5 DEF Good
    <3> QED BY <3>1
  <2>6. Elts(r) = Elts(s) \ {b}
    <3>1. ASSUME NEW i \in 1 .. Len(r) PROVE r[i] \in Elts(s) \ {b}
      <4>1. s[pos(i)] # s[p]
        BY <2>4 DEF Good
      <4>2. s[pos(i)] \in Elts(s)
        BY <2>4 DEF Elts
      <4> QED BY <2>1, <2>4, <4>1, <4>2
    <3>2. ASSUME NEW i \in 1 .. Len(s), s[i] # b PROVE s[i] \in Elts(r)
      <4>1. PICK j \in 1 .. Len(r) : pos(j) = i
        <5>1. CASE i < p
          BY <1>1, <2>3, <5>1
        <5>2. CASE ~(i < p)
          <6>1. i > p
            BY <2>1, <3>2, <5>2
          <6>2. i - 1 \in 1 .. Len(r) /\ ~(i - 1 < p) /\ (i - 1) + 1 = i
            BY <1>1, <2>3, <6>1
          <6> QED BY <6>2
        <5> QED BY <5>1, <5>2
      <4>2. r[j] = s[i]
        BY <2>4, <4>1
      <4> QED BY <4>2 DEF Elts
    <3> QED BY <3>1, <3>2 DEF Elts
  <2> QED BY <2>1, <2>2, <2>3, <2>5, <2>6 DEF Good
<1> QED BY <1>3, <1>4

\* Inserting the blocks of the walk one by one lists each of them once.
LEMMA GoodInserted ==
  ASSUME NEW S \in SUBSET Cells
  PROVE  Good(Inserted(S)) /\ Elts(Inserted(S)) = S
<1>0. \A b \in S : b \in Nat
  BY CellsAre
<1>1. IsFiniteSet(S)
  <2>1. IsFiniteSet(0 .. Top - 1)
    BY CellsAre, FS_Interval
  <2> QED BY <2>1, CellsAre, FS_Subset
<1>2. PICK n \in Nat : n = Cardinality(S)
  BY <1>1, FS_CardinalityType
<1> DEFINE above(b) == {c \in S : c > b}
           rank(b) == Cardinality(above(b))
<1>3. ASSUME NEW b \in S PROVE IsFiniteSet(above(b)) /\ rank(b) \in Nat /\ rank(b) < n
  <2>1. above(b) \in SUBSET S /\ b \notin above(b)
    BY CellsAre
  <2>2. IsFiniteSet(above(b)) /\ rank(b) <= n /\ (n = rank(b) => S = above(b))
    <3> HIDE DEF above
    <3> QED BY <1>1, <1>2, <2>1, FS_Subset
  <2>3. rank(b) \in Nat
    <3> HIDE DEF above
    <3> QED BY <2>2, FS_CardinalityType
  <2> HIDE DEF above
  <2>4. rank(b) # n
    BY <2>1, <2>2
  <2> HIDE DEF rank
  <2> QED BY <2>2, <2>3, <2>4
<1>4. ASSUME NEW b \in S, NEW c \in S, b < c PROVE rank(b) # rank(c)
  <2>0. b \in Nat /\ c \in Nat /\ \A x \in S : x > c => x > b
    BY <1>0, <1>4
  <2>1. above(c) \in SUBSET above(b) /\ c \in above(b) /\ c \notin above(c)
    <3>1. \A x : x \in above(c) => x \in above(b)
      BY <2>0
    <3>2. c \in above(b) /\ c \notin above(c)
      BY <1>4, <2>0
    <3> HIDE DEF above
    <3> QED BY <3>1, <3>2
  <2>2. IsFiniteSet(above(b))
    BY <1>3
  <2> HIDE DEF above
  <2>3. rank(b) = rank(c) => above(b) = above(c)
    BY <2>1, <2>2, FS_Subset
  <2> QED BY <2>1, <2>3
<1>5. PICK f : f = [b \in S |-> rank(b) + 1]
  OBVIOUS
<1>a. ASSUME NEW b \in S PROVE f[b] \in 1 .. n
  <2>1. rank(b) \in Nat /\ rank(b) < n /\ f[b] = rank(b) + 1
    BY <1>3, <1>5
  <2> HIDE DEF rank
  <2> QED BY <2>1
<1>b. ASSUME NEW b \in S, NEW c \in S, b < c PROVE f[b] # f[c]
  <2>1. /\ rank(b) \in Nat /\ f[b] = rank(b) + 1 /\ rank(c) \in Nat /\ f[c] = rank(c) + 1
        /\ rank(b) # rank(c)
    BY <1>3, <1>4, <1>5, <1>b
  <2> HIDE DEF rank
  <2> QED BY <2>1
<1>6. f \in Surjection(S, 1 .. n)
  <2>1. f \in [S -> 1 .. n]
    <3>1. f = [b \in S |-> f[b]]
      BY <1>5
    <3> QED BY <1>a, <3>1
  <2>2. ASSUME NEW b \in S, NEW c \in S, f[b] = f[c] PROVE b = c
    <3>1. b \in Nat /\ c \in Nat
      BY CellsAre
    <3> QED BY <1>b, <2>2, <3>1
  <2>3. f \in Injection(S, 1 .. n)
    BY <2>1, <2>2 DEF Injection, IsInjective
  <2>4. IsFiniteSet(1 .. n) /\ Cardinality(1 .. n) = n
    BY FS_Interval
  <2> QED BY <1>2, <2>3, <2>4, FS_Injection
<1>7. PICK s : s = Inserted(S)
  OBVIOUS
<1>8. ASSUME NEW i \in 1 .. n PROVE s[i] = CHOOSE b \in S : rank(b) = i - 1
  BY <1>2, <1>7 DEF Inserted
<1>9. ASSUME NEW i \in 1 .. n PROVE s[i] \in S /\ f[s[i]] = i
  <2>1. PICK b \in S : f[b] = i
    BY <1>6 DEF Surjection
  <2>2. rank(b) = i - 1
    <3>1. rank(b) \in Nat /\ f[b] = rank(b) + 1
      BY <1>3, <1>5
    <3> HIDE DEF rank
    <3> QED BY <2>1, <3>1
  <2>3. s[i] \in S /\ rank(s[i]) = i - 1
    <3>1. s[i] = CHOOSE c \in S : rank(c) = i - 1
      BY <1>8
    <3> HIDE DEF rank
    <3> QED BY <2>2, <3>1
  <2>4. f[s[i]] = rank(s[i]) + 1
    BY <1>5, <2>3
  <2> HIDE DEF rank
  <2> QED BY <2>3, <2>4
<1>10. s \in Seq(Cells) /\ Len(s) = n
  <2> DEFINE h(i) == CHOOSE b \in S : Cardinality({c \in S : c > b}) = i - 1
  <2>a. s = [i \in 1 .. n |-> h(i)]
    BY <1>7, <1>2 DEF Inserted
  <2>1. s = [i \in 1 .. n |-> s[i]]
    <3> HIDE DEF h
    <3> QED BY <2>a
  <2>2. s \in [1 .. n -> Cells]
    BY <1>9, <2>1
  <2> QED BY <2>2
<1>11. ASSUME NEW i \in 1 .. n, NEW j \in 1 .. n, s[i] = s[j] PROVE i = j
  <2>1. f[s[i]] = i /\ f[s[j]] = j
    BY <1>9
  <2> QED BY <1>11, <2>1
<1>12. ASSUME NEW b \in S PROVE b \in Elts(s)
  <2>1. PICK i \in 1 .. n : i = f[b]
    BY <1>a
  <2>2. s[i] \in S /\ f[s[i]] = f[b]
    BY <1>9, <2>1
  <2>3. s[i] = b
    <3>1. b \in Nat /\ s[i] \in Nat
      BY <1>0, <2>2
    <3>2. ~(b < s[i]) /\ ~(s[i] < b)
      BY <1>b, <2>2
    <3> QED BY <3>1, <3>2
  <2> QED BY <1>10, <2>3 DEF Elts
<1> QED BY <1>7, <1>9, <1>10, <1>11, <1>12 DEF Good, Elts
-----------------------------------------------------------------------------
(* Halving a block and joining two *)

\* The halves of a block take its place.
LEMMA TileSplit ==
  ASSUME NEW B, NEW ord, Tiling(B, ord), NEW b \in B, NEW k \in Nat, ord[b] = k + 1,
         NEW right, right = b + Pow(k), NEW ord2, ord2[b] = k, ord2[right] = k,
         \A c \in B : c # b => ord2[c] = ord[c]
  PROVE  right \in Cells /\ right \notin B /\ right # b /\ Tiling(B \cup {right}, ord2)
<1>1. PICK p \in Nat : p = Pow(k) /\ p > 0
  BY PowType
<1>2. Pow(k + 1) = 2 * p
  BY <1>1, PowNext
<1>3. /\ b \in Nat /\ b + 2 * p <= Top /\ k + 1 <= MaxOrder /\ MaxOrder \in Nat
      /\ Top \in Nat /\ right = b + p /\ right \in Nat
  <2>1. /\ b \in Nat /\ b + Pow(ord[b]) <= Top /\ ord[b] <= MaxOrder /\ MaxOrder \in Nat
        /\ Top \in Nat
    BY TileFacts, CellsAre
  <2>2. Pow(ord[b]) = 2 * p
    BY <1>2
  <2> QED BY <1>1, <2>1, <2>2
<1>4. right \in Cells /\ right # b
  BY <1>1, <1>3, CellsAre
<1>5. /\ b + 2 * p \in B \cup {Top}
      /\ \A c \in B : b < c => b + 2 * p <= c
  BY <1>2 DEF Tiling
<1>6. \A c \in B : c \in Nat
  BY TileFacts
<1>7. right \notin B
  BY <1>1, <1>3, <1>5
<1>8. B \cup {right} \subseteq Cells /\ 0 \in B \cup {right}
  BY <1>4 DEF Tiling
<1>9. PICK m \in Nat : b = m * (2 * p)
  <2>1. \E m \in Nat : b = m * Pow(ord[b])
    BY TileFacts
  <2>2. Pow(ord[b]) = 2 * p
    BY <1>2
  <2> QED BY <2>1, <2>2
<1>10. b = (2 * m) * p /\ right = (2 * m + 1) * p /\ 2 * m \in Nat /\ 2 * m + 1 \in Nat
  <2>1. m * (2 * p) = (2 * m) * p /\ (2 * m) * p + p = (2 * m + 1) * p
    OBVIOUS
  <2> QED BY <1>3, <1>9, <2>1
<1>11. ASSUME NEW c \in B \cup {right}
       PROVE  /\ ord2[c] \in Orders
              /\ c + Pow(ord2[c]) \in (B \cup {right}) \cup {Top}
              /\ \E n \in Nat : c = n * Pow(ord2[c])
  <2>1. k \in Orders
    BY <1>3, CellsAre
  <2>2. CASE c = b
    BY <1>1, <1>3, <1>10, <2>1, <2>2
  <2>3. CASE c = right
    <3>1. right + p = b + 2 * p
      BY <1>3
    <3> QED BY <1>1, <1>5, <1>10, <2>1, <2>3, <3>1
  <2>4. CASE c \in B /\ c # b
    BY <2>4 DEF Tiling
  <2> QED BY <2>2, <2>3, <2>4
<1>12. ASSUME NEW c \in B \cup {right}, NEW d \in B \cup {right}, c < d
       PROVE  c + Pow(ord2[c]) <= d
  <2>0. d \in Nat /\ c \in Nat
    BY <1>3, <1>6
  <2>1. CASE c = b
    BY <1>1, <1>3, <1>5, <1>12, <2>0, <2>1
  <2>2. CASE c = right
    <3>1. d \in B /\ b < d
      BY <1>1, <1>3, <1>12, <2>0, <2>2
    <3>2. b + 2 * p <= d
      BY <1>5, <3>1
    <3> QED BY <1>1, <1>3, <2>0, <2>2, <3>2
  <2>3. CASE c \in B /\ c # b
    <3>1. ord2[c] = ord[c] /\ \A x \in B : c < x => c + Pow(ord[c]) <= x
      BY <2>3 DEF Tiling
    <3>2. CASE d \in B
      BY <1>12, <3>1, <3>2
    <3>3. CASE d = right
      <4>1. c < b
        BY <1>1, <1>3, <1>5, <1>12, <2>0, <2>3, <3>3
      <4>2. c + Pow(ord[c]) <= b /\ Pow(ord[c]) \in Nat
        BY <2>3, <3>1, <4>1, TileFacts
      <4> QED BY <1>1, <1>3, <2>0, <3>1, <3>3, <4>2
    <3> QED BY <3>2, <3>3
  <2> QED BY <2>1, <2>2, <2>3
<1> QED BY <1>4, <1>7, <1>8, <1>11, <1>12 DEF Tiling

\* ord2 doubles the lower half of an aligned block, whose halves are blocks of ord.
Joined(B, ord, low, high, k, ord2) ==
  /\ Tiling(B, ord) /\ k \in Nat /\ k < MaxOrder
  /\ low \in B /\ ord[low] = k /\ high \in B /\ ord[high] = k
  /\ high = low + Pow(k) /\ \E q \in Nat : low = q * Pow(k + 1)
  /\ ord2[low] = k + 1 /\ \A c \in B : c # low => ord2[c] = ord[c]

\* Two halves of an aligned block are replaced by it.
LEMMA TileMerge ==
  ASSUME NEW B, NEW ord, NEW low, NEW high, NEW k, NEW ord2, Joined(B, ord, low, high, k, ord2)
  PROVE  Tiling(B \ {high}, ord2)
<1> USE DEF Joined
<1>1. PICK p \in Nat : p = Pow(k) /\ p > 0
  BY PowType
<1>2. Pow(k + 1) = 2 * p
  BY <1>1, PowNext
<1>3. low \in Nat /\ high \in Nat /\ high = low + p /\ MaxOrder \in Nat /\ Top \in Nat
  BY <1>1, TileFacts, CellsAre
<1>4. \A c \in B : c \in Nat /\ ord[c] \in Nat /\ Pow(ord[c]) \in Nat /\ Pow(ord[c]) > 0
  BY TileFacts
<1>5. \A c \in B : (low < c => high <= c) /\ (high < c => high + p <= c)
  <2>1. Pow(ord[low]) = p /\ Pow(ord[high]) = p
    BY <1>1
  <2>2. \A c \in B : /\ low < c => low + Pow(ord[low]) <= c
                     /\ high < c => high + Pow(ord[high]) <= c
    BY DEF Tiling
  <2> QED BY <1>3, <2>1, <2>2
<1>6. high + p \in B \cup {Top} /\ high + p # high
  <2>1. Pow(ord[high]) = p
    BY <1>1
  <2>2. high + Pow(ord[high]) \in B \cup {Top}
    BY DEF Tiling
  <2> QED BY <1>1, <1>3, <2>1, <2>2
<1>7. B \ {high} \subseteq Cells /\ 0 \in B \ {high}
  <2>1. B \subseteq Cells /\ 0 \in B
    BY DEF Tiling
  <2>2. high # 0
    BY <1>1, <1>3
  <2> QED BY <2>1, <2>2
<1>8. ASSUME NEW c \in B \ {high}
      PROVE  /\ ord2[c] \in Orders
             /\ c + Pow(ord2[c]) \in (B \ {high}) \cup {Top}
             /\ \E n \in Nat : c = n * Pow(ord2[c])
  <2>1. CASE c = low
    <3>1. k + 1 \in Orders
      BY <1>3, CellsAre
    <3>2. low + 2 * p = high + p
      BY <1>3
    <3> QED BY <1>2, <1>6, <2>1, <3>1, <3>2
  <2>2. CASE c # low
    <3>1. /\ ord2[c] = ord[c] /\ ord[c] \in Orders /\ c + Pow(ord[c]) \in B \cup {Top}
          /\ \E n \in Nat : c = n * Pow(ord[c])
          /\ c < low => c + Pow(ord[c]) <= low
      BY <2>2 DEF Tiling
    <3>2. c + Pow(ord[c]) # high
      BY <1>1, <1>3, <1>4, <1>5, <2>2, <3>1
    <3> QED BY <3>1, <3>2
  <2> QED BY <2>1, <2>2
<1>9. ASSUME NEW c \in B \ {high}, NEW d \in B \ {high}, c < d
      PROVE  c + Pow(ord2[c]) <= d
  <2>1. CASE c = low
    <3>1. high + p <= d
      BY <1>3, <1>4, <1>5, <1>9, <2>1
    <3> QED BY <1>2, <1>3, <1>4, <2>1, <3>1
  <2>2. CASE c # low
    BY <1>9, <2>2 DEF Tiling
  <2> QED BY <2>1, <2>2
<1> QED BY <1>7, <1>8, <1>9 DEF Tiling

\* The buddy of the m-th block of a size is the next one or the one before.
LEMMA BuddyNth ==
  ASSUME NEW k \in Nat, NEW m \in Nat
  PROVE  BuddyOf(m * Pow(k), k) = IF (m % 2) = 0 THEN m * Pow(k) + Pow(k) ELSE m * Pow(k) - Pow(k)
<1>1. PICK p \in Nat : p = Pow(k) /\ p > 0
  BY PowType
<1>2. PICK x \in Nat : x = m * p
  OBVIOUS
<1>3. BuddyOf(x, k) = IF ((x \div p) % 2) = 0 THEN x + p ELSE x - p
  BY <1>1 DEF BuddyOf, Pow
<1>4. x \div p = m
  BY <1>1, <1>2, ExactDiv
<1> QED BY <1>1, <1>2, <1>3, <1>4

\* A block is the buddy of its buddy.
LEMMA BuddyBack ==
  ASSUME NEW k \in Nat, NEW m \in Nat, NEW b, b = m * Pow(k)
  PROVE  BuddyOf(BuddyOf(b, k), k) = b /\ BuddyOf(b, k) # b
<1>1. PICK p \in Nat : p = Pow(k) /\ p > 0
  BY PowType
<1>2. b = m * p /\ b \in Nat
  BY <1>1
<1>3. CASE (m % 2) = 0
  <2>1. BuddyOf(b, k) = b + p
    BY <1>1, <1>3, BuddyNth
  <2>2. PICK n \in Nat : n = m + 1 /\ (n % 2) # 0
    BY <1>3
  <2>3. b + p = n * p
    BY <1>2, <2>2
  <2>4. BuddyOf(n * p, k) = n * p - p
    BY <1>1, <2>2, BuddyNth
  <2>5. n * p - p = b /\ b + p # b
    BY <1>1, <1>2, <2>3
  <2> QED BY <2>1, <2>3, <2>4, <2>5
<1>4. CASE (m % 2) # 0
  <2>1. BuddyOf(b, k) = b - p
    BY <1>1, <1>4, BuddyNth
  <2>2. PICK n \in Nat : n = m - 1 /\ (n % 2) = 0
    BY <1>4
  <2>3. b - p = n * p
    BY <1>2, <2>2
  <2>4. BuddyOf(n * p, k) = n * p + p
    BY <1>1, <2>2, BuddyNth
  <2>5. n * p + p = b /\ b - p # b
    <3>1. n * p \in Int
      OBVIOUS
    <3> QED BY <1>1, <1>2, <2>3, <3>1
  <2> QED BY <2>1, <2>3, <2>4, <2>5
<1> QED BY <1>3, <1>4

\* The buddy of a block that is the whole region is outside it.
LEMMA BuddyOfAll ==
  ASSUME NEW B, NEW ord, Tiling(B, ord), NEW b \in B, BuddyOf(b, ord[b]) \in Cells
  PROVE  ord[b] < MaxOrder
<1>1. /\ b \in Nat /\ ord[b] \in Nat /\ ord[b] <= MaxOrder /\ MaxOrder \in Nat
      /\ b + Pow(ord[b]) <= Top /\ Top \in Nat
  BY TileFacts, CellsAre
<1>2. SUFFICES ASSUME ord[b] = MaxOrder PROVE FALSE
  BY <1>1
<1>3. b = 0
  BY <1>1, <1>2 DEF Top
<1>4. BuddyOf(0, MaxOrder) = Top
  <2>1. 0 * Pow(MaxOrder) = 0 /\ (0 % 2) = 0 /\ 0 + Pow(MaxOrder) = Pow(MaxOrder)
    BY <1>1, PowType
  <2> QED BY <1>1, <2>1, BuddyNth DEF Top
<1> QED BY <1>1, <1>2, <1>3, <1>4, CellsAre
-----------------------------------------------------------------------------
(* The loop of free *)

\* One round of the loop, or none when it has ended.
RoundOf(s) == IF Merges(s) THEN MergeUp(s) ELSE s

\* Rounds as the recursive definition says, which needs that such a function exists.
LEMMA RoundsAre ==
  ASSUME NEW s
  PROVE  Rounds(s)[0] = s /\ \A i \in 0 .. MaxOrder - 1 : Rounds(s)[i + 1] = RoundOf(Rounds(s)[i])
<1>0. MaxOrder \in Nat /\ Orders = 0 .. MaxOrder
  BY CellsAre, BuddyAssumption
<1> DEFINE step(g) == [i \in Orders |->
              IF i = 0 THEN s ELSE IF Merges(g[i - 1]) THEN MergeUp(g[i - 1]) ELSE g[i - 1]]
           f == CHOOSE g : g = step(g)
           Good1(g, m) == /\ DOMAIN g = 0 .. m /\ g = [i \in 0 .. m |-> g[i]] /\ g[0] = s
                          /\ \A i \in 0 .. m - 1 : g[i + 1] = RoundOf(g[i])
           T == {m \in Nat : ~\E g : Good1(g, m)}
<1>1. Rounds(s) = f
  BY DEF Rounds
<1>2. \A m \in Nat : \E g : Good1(g, m)
  <2>1. SUFFICES ASSUME T # {} PROVE FALSE
    OBVIOUS
  <2>2. PICK x \in T : \A y \in T : x <= y
    <3>1. T \in SUBSET Nat
      OBVIOUS
    <3> HIDE DEF T
    <3> QED BY <2>1, <3>1, Least
  <2>3. x \in Nat /\ ~\E g : Good1(g, x)
    BY <2>2
  <2>4. x # 0
    <3>1. PICK g : g = [i \in 0 .. 0 |-> s]
      OBVIOUS
    <3>2. Good1(g, 0)
      BY <3>1
    <3> HIDE DEF Good1
    <3> QED BY <2>3, <3>2
  <2>5. PICK y \in Nat : y = x - 1 /\ x = y + 1
    BY <2>3, <2>4
  <2>6. y \notin T
    <3> HIDE DEF T
    <3> QED BY <2>2, <2>3, <2>5
  <2>7. PICK g : Good1(g, y)
    BY <2>6
  <2>8. PICK h : h = [i \in 0 .. y + 1 |-> IF i <= y THEN g[i] ELSE RoundOf(g[y])]
    OBVIOUS
  <2>9. Good1(h, y + 1)
    <3>1. /\ DOMAIN h = 0 .. y + 1 /\ h = [i \in 0 .. y + 1 |-> h[i]] /\ h[0] = s
      BY <2>7, <2>8
    <3>2. ASSUME NEW i \in 0 .. (y + 1) - 1 PROVE h[i + 1] = RoundOf(h[i])
      <4>1. CASE i = y
        BY <2>8, <4>1
      <4>2. CASE i < y
        <5>1. h[i + 1] = g[i + 1] /\ h[i] = g[i] /\ i \in 0 .. y - 1
          BY <2>8, <4>2
        <5> QED BY <2>7, <5>1
      <4> QED BY <4>1, <4>2
    <3> QED BY <3>1, <3>2
  <2> HIDE DEF Good1
  <2> QED BY <2>3, <2>5, <2>9
<1>3. \E g : g = step(g)
  <2>1. PICK g : Good1(g, MaxOrder)
    BY <1>0, <1>2
  <2>2. ASSUME NEW i \in Orders
        PROVE  g[i] = IF i = 0 THEN s ELSE IF Merges(g[i - 1]) THEN MergeUp(g[i - 1]) ELSE g[i - 1]
    <3>1. CASE i = 0
      BY <2>1, <3>1
    <3>2. CASE i # 0
      <4>1. PICK j \in 0 .. MaxOrder - 1 : j = i - 1 /\ i = j + 1
        BY <1>0, <3>2
      <4>2. g[j + 1] = RoundOf(g[j])
        BY <2>1, <4>1
      <4> QED BY <3>2, <4>1, <4>2 DEF RoundOf
    <3> QED BY <3>1, <3>2
  <2>3. g = [i \in Orders |-> g[i]]
    BY <1>0, <2>1
  <2>4. g = step(g)
    BY <2>2, <2>3
  <2> QED BY <2>4
<1>4. f = step(f)
  <2> HIDE DEF step
  <2> QED BY <1>3
<1>5. f[0] = s /\ \A i \in 0 .. MaxOrder - 1 : f[i + 1] = RoundOf(f[i])
  <2> HIDE DEF f
  <2>1. 0 \in Orders
    BY <1>0
  <2>2. f[0] = s
    BY <1>4, <2>1
  <2>3. ASSUME NEW i \in 0 .. MaxOrder - 1 PROVE f[i + 1] = RoundOf(f[i])
    <3>1. i + 1 \in Orders /\ i + 1 # 0 /\ (i + 1) - 1 = i
      BY <1>0
    <3> QED BY <1>4, <3>1 DEF RoundOf
  <2> QED BY <2>2, <2>3
<1> HIDE DEF f
<1> QED BY <1>1, <1>5

Fields == {"b", "k", "order", "lists", "free"}

\* merge moves on to the next size and keeps the record's fields.
LEMMA MergeUpFields ==
  ASSUME NEW s, DOMAIN s = Fields, s = [x \in Fields |-> s[x]]
  PROVE  /\ DOMAIN MergeUp(s) = Fields /\ MergeUp(s).k = s.k + 1
         /\ MergeUp(s) = [x \in Fields |-> MergeUp(s)[x]]
BY DEF MergeUp, Fields

\* A loop that can go on has merged in every round so far.
LEMMA RoundsCount ==
  ASSUME NEW s, DOMAIN s = Fields, s = [x \in Fields |-> s[x]], s.k \in Nat, NEW i \in Orders,
         Merges(Rounds(s)[i])
  PROVE  Rounds(s)[i].k = s.k + i
<1>0. MaxOrder \in Nat /\ Orders = 0 .. MaxOrder
  BY CellsAre, BuddyAssumption
<1>1. PICK f : f = Rounds(s)
  OBVIOUS
<1>2. f[0] = s /\ \A j \in 0 .. MaxOrder - 1 : f[j + 1] = RoundOf(f[j])
  BY <1>1, RoundsAre
<1> DEFINE P(j) == /\ DOMAIN f[j] = Fields /\ f[j] = [x \in Fields |-> f[j][x]]
                   /\ Merges(f[j]) => f[j].k = s.k + j
           T == {j \in Orders : ~P(j)}
<1>3. T = {}
  <2>1. SUFFICES ASSUME T # {} PROVE FALSE
    OBVIOUS
  <2>2. PICK x \in T : \A y \in T : x <= y
    <3>1. T \in SUBSET Nat
      BY <1>0
    <3> HIDE DEF T
    <3> QED BY <2>1, <3>1, Least
  <2>3. x \in Orders /\ ~P(x)
    BY <2>2
  <2>4. P(0)
    BY <1>2
  <2>5. x # 0
    <3> HIDE DEF P
    <3> QED BY <2>3, <2>4
  <2>6. PICK y \in 0 .. MaxOrder - 1 : y = x - 1 /\ x = y + 1 /\ y \in Orders
    BY <1>0, <2>3, <2>5
  <2>7. y \notin T
    <3>1. x \in Nat /\ y \in Nat
      BY <1>0, <2>3, <2>6
    <3> HIDE DEF T
    <3> QED BY <2>2, <2>6, <3>1
  <2>8. P(y)
    <3> HIDE DEF P
    <3> QED BY <2>6, <2>7
  <2>9. f[x] = RoundOf(f[y])
    BY <1>2, <2>6
  <2>10. CASE Merges(f[y])
    <3>1. f[x] = MergeUp(f[y])
      BY <2>9, <2>10 DEF RoundOf
    <3>2. DOMAIN f[x] = Fields /\ f[x].k = f[y].k + 1 /\ f[x] = [z \in Fields |-> f[x][z]]
      BY <2>8, <3>1, MergeUpFields
    <3>3. f[x].k = s.k + x
      BY <2>6, <2>8, <2>10, <3>2
    <3> QED BY <2>3, <3>2, <3>3
  <2>11. CASE ~Merges(f[y])
    <3>1. f[x] = f[y]
      BY <2>9, <2>11 DEF RoundOf
    <3> QED BY <2>3, <2>8, <2>11, <3>1
  <2> QED BY <2>10, <2>11
<1>4. P(i)
  <2> HIDE DEF P
  <2> QED BY <1>3
<1> QED BY <1>1, <1>4

\* What is ahead of the loop is ahead of it after a round.
LEMMA EqualStep ==
  ASSUME NEW s, DOMAIN s = Fields, s = [x \in Fields |-> s[x]], s.k \in Nat,
         EqualFrom(s), Merges(s)
  PROVE  s.order[Other(s)] = s.order[s.b] /\ EqualFrom(MergeUp(s))
<1>0. MaxOrder \in Nat /\ Orders = 0 .. MaxOrder /\ 0 \in Orders
  BY CellsAre, BuddyAssumption
<1>1. PICK t : t = MergeUp(s)
  OBVIOUS
<1>2. DOMAIN t = Fields /\ t.k = s.k + 1 /\ t = [x \in Fields |-> t[x]]
  BY <1>1, MergeUpFields
<1>3. PICK f, g : f = Rounds(s) /\ g = Rounds(t)
  OBVIOUS
<1>4. f[0] = s /\ \A j \in 0 .. MaxOrder - 1 : f[j + 1] = RoundOf(f[j])
  BY <1>3, RoundsAre
<1>5. g[0] = t /\ \A j \in 0 .. MaxOrder - 1 : g[j + 1] = RoundOf(g[j])
  BY <1>3, RoundsAre
<1>6. \A i \in Orders : Merges(f[i]) => f[i].order[Other(f[i])] = f[i].order[f[i].b]
  BY <1>3 DEF EqualFrom
<1>7. s.order[Other(s)] = s.order[s.b]
  BY <1>0, <1>4, <1>6
<1> DEFINE T == {j \in 0 .. MaxOrder - 1 : g[j] # f[j + 1]}
<1>8. T = {}
  <2>1. SUFFICES ASSUME T # {} PROVE FALSE
    OBVIOUS
  <2>2. PICK x \in T : \A y \in T : x <= y
    <3>1. T \in SUBSET Nat
      BY <1>0
    <3> HIDE DEF T
    <3> QED BY <2>1, <3>1, Least
  <2>3. x \in 0 .. MaxOrder - 1 /\ g[x] # f[x + 1]
    BY <2>2
  <2>4. x # 0
    <3>1. ASSUME x = 0 PROVE FALSE
      <4>1. f[x + 1] = RoundOf(f[x])
        BY <1>4, <2>3
      <4> QED BY <1>1, <1>4, <1>5, <2>3, <3>1, <4>1 DEF RoundOf
    <3> QED BY <3>1
  <2>5. PICK y \in 0 .. MaxOrder - 1 : y = x - 1 /\ x = y + 1
    BY <1>0, <2>3, <2>4
  <2>6. y \notin T
    <3> HIDE DEF T
    <3> QED BY <2>2, <2>3, <2>5
  <2>7. g[y] = f[y + 1]
    BY <2>6
  <2>8. g[x] = RoundOf(g[y]) /\ f[x + 1] = RoundOf(f[x])
    BY <1>4, <1>5, <2>3, <2>5
  <2> QED BY <2>3, <2>5, <2>7, <2>8
<1>9. ASSUME NEW i \in Orders, Merges(g[i]) PROVE g[i].order[Other(g[i])] = g[i].order[g[i].b]
  <2>1. g[i].k = t.k + i
    BY <1>2, <1>3, <1>9, RoundsCount
  <2>2. g[i].k < MaxOrder
    BY <1>9 DEF Merges
  <2>3. i \in 0 .. MaxOrder - 1 /\ i + 1 \in Orders
    BY <1>0, <1>2, <2>1, <2>2
  <2>4. g[i] = f[i + 1]
    BY <1>8, <2>3
  <2> QED BY <1>6, <1>9, <2>3, <2>4
<1> QED BY <1>1, <1>3, <1>7, <1>9 DEF EqualFrom
-----------------------------------------------------------------------------
(* The invariant *)

\* The least element of a set of numbers.
LEMMA MinOf ==
  ASSUME NEW S \in SUBSET Nat, S # {}
  PROVE  Min(S) \in S /\ \A y \in S : Min(S) <= y
<1>1. \E x \in S : \A y \in S : x <= y
  BY Least
<1> QED BY <1>1 DEF Min

\* A new heap is one block.
LEMMA InvInit == Init => BuddyInv
<1> SUFFICES ASSUME Init PROVE BuddyInv
  OBVIOUS
<1>1. /\ MaxOrder \in Nat /\ Orders = 0 .. MaxOrder /\ MaxOrder \in Orders /\ 0 \in Cells
      /\ Cells = 0 .. Top - 1 /\ Top \in Nat /\ Top > 0
  BY CellsAre, BuddyAssumption
<1>2. /\ order \in [Cells -> Orders \cup {NoSize}] /\ free \in [Cells -> BOOLEAN]
      /\ order[0] = MaxOrder /\ free[0]
  BY <1>1 DEF Init
<1>3. op = Idle /\ OpTyped /\ OpOK
  BY <1>1 DEF Init, Idle, OpTyped, OpOK
<1>4. Tiling({0}, order)
  <2>1. 0 + Pow(MaxOrder) = Top /\ 0 = 0 * Pow(MaxOrder)
    BY <1>1, PowType DEF Top
  <2> QED BY <1>1, <1>2, <2>1 DEF Tiling
<1>5. Walk = {0}
  BY <1>4, WalkIs, WalkNow
<1>6. /\ DOMAIN lists = Orders /\ lists[MaxOrder] = <<0>>
      /\ \A k \in Orders : k # MaxOrder => lists[k] = <<>>
  BY <1>1 DEF Init
<1>7. Good(<<0>>) /\ Elts(<<0>>) = {0}
  BY <1>1 DEF Good, Elts
<1>8. ListsOK
  <2>1. ASSUME NEW k \in Orders
        PROVE  /\ Good(lists[k])
               /\ \A b \in Elts(lists[k]) : b \in Walk /\ order[b] = k /\ free[b]
    <3>1. CASE k = MaxOrder
      BY <1>2, <1>5, <1>6, <1>7, <3>1
    <3>2. CASE k # MaxOrder
      BY <1>6, <3>2, GoodEmpty
    <3> QED BY <3>1, <3>2
  <2> QED BY <1>6, <2>1 DEF ListsOK
<1>9. AllListed
  BY <1>2, <1>5, <1>6, <1>7 DEF AllListed, On
<1>10. HeldOK
  BY DEF Init, HeldOK
<1>11. Paired
  <2>1. ASSUME NEW k \in 0 .. MaxOrder - 1, NEW b PROVE ~On(b, k)
    <3>1. k \in Orders /\ k # MaxOrder
      BY <1>1
    <3> QED BY <1>6, <3>1, GoodEmpty DEF On
  <2> QED BY <2>1 DEF Paired
<1> QED BY <1>2, <1>3, <1>4, <1>5, <1>8, <1>9, <1>10, <1>11 DEF BuddyInv

\* What the invariant says of the numbers and of a listed block.
LEMMA InvFacts ==
  ASSUME BuddyInv
  PROVE  /\ MaxOrder \in Nat /\ Orders = 0 .. MaxOrder /\ Basic \in Nat
         /\ Walk \subseteq Cells
         /\ \A c \in Walk : order[c] \in Orders
         /\ \A k \in Orders : Good(lists[k])
         /\ \A k \in Orders : \A c : On(c, k) => c \in Walk /\ order[c] = k /\ free[c]
<1>1. Tiling(Walk, order) /\ ListsOK
  BY DEF BuddyInv
<1>2. MaxOrder \in Nat /\ Orders = 0 .. MaxOrder /\ Basic \in Nat
  BY CellsAre, BuddyAssumption
<1>3. Walk \subseteq Cells /\ \A c \in Walk : order[c] \in Orders
  BY <1>1 DEF Tiling
<1>4. /\ \A k \in Orders : Good(lists[k])
      /\ \A k \in Orders : \A c : On(c, k) => c \in Walk /\ order[c] = k /\ free[c]
  BY <1>1 DEF ListsOK, On
<1> QED BY <1>2, <1>3, <1>4

\* Between operations no block is listed with its buddy.
LEMMA IdlePairs ==
  ASSUME BuddyInv, ~torn, op.at \notin {"split", "merge"}, NEW k \in 0 .. MaxOrder - 1,
         NEW b \in Cells, On(b, k)
  PROVE  ~On(BuddyOf(b, k), k)
BY DEF BuddyInv, Paired

\* alloc chooses a block.
LEMMA InvAlloc ==
  ASSUME BuddyInv, NEW n \in Needs, Alloc(n)
  PROVE  BuddyInv'
<1>0. PICK fitting : fitting = {i \in Orders : lists[i] # <<>> /\ Fits(i, n)}
  OBVIOUS
<1>1. op = Idle /\ UNCHANGED <<order, free, lists, held, torn>>
  BY DEF Alloc
<1>2. Walk' = Walk
  BY <1>1, WalkNow
<1>3. /\ (order \in [Cells -> Orders \cup {NoSize}])' /\ (free \in [Cells -> BOOLEAN])'
      /\ Tiling(Walk, order)' /\ ListsOK' /\ HeldOK'
  BY <1>1, <1>2 DEF BuddyInv, Tiling, ListsOK, HeldOK
<1>4. CASE fitting # {}
  <2>1. op' = [at |-> "split", b |-> 0, k |-> Min(fitting), n |-> n]
    BY <1>0, <1>4 DEF Alloc
  <2>2. fitting \in SUBSET Nat
    BY <1>0, CellsAre
  <2>3. Min(fitting) \in fitting /\ \A y \in fitting : Min(fitting) <= y
    BY <1>4, <2>2, MinOf
  <2>4. PICK m \in Orders : /\ m = Min(fitting) /\ lists[m] # <<>> /\ Fits(m, n)
                            /\ \A y \in fitting : m <= y
    BY <1>0, <2>3
  <2>5. OpTyped'
    <3>1. n \in Nat /\ 0 \in Cells
      BY BuddyAssumption, CellsAre, PowType DEF Pow
    <3> QED BY <2>1, <2>4, <3>1 DEF OpTyped
  <2>6. \A j \in Orders : j < m /\ Fits(j, n) => lists[j] = <<>>
    <3>1. ASSUME NEW j \in Orders, j < m, Fits(j, n), lists[j] # <<>> PROVE FALSE
      <4>1. j \in fitting
        BY <1>0, <3>1
      <4>2. m <= j /\ m \in Nat /\ j \in Nat
        BY <2>4, <4>1, CellsAre
      <4> QED BY <3>1, <4>2
    <3> QED BY <3>1
  <2>7. OpOK'
    BY <1>1, <2>1, <2>4, <2>6 DEF OpOK, Fits
  <2>8. AllListed'
    BY <1>1, <1>2 DEF BuddyInv, AllListed, On, Idle
  <2>9. Paired'
    BY <1>1, IdlePairs DEF Paired, On, Idle
  <2> QED BY <1>3, <2>5, <2>7, <2>8, <2>9 DEF BuddyInv
<1>5. CASE fitting = {}
  <2>1. op' = op
    BY <1>0, <1>5 DEF Alloc
  <2>2. OpTyped' /\ OpOK'
    BY <1>1, <2>1 DEF BuddyInv, OpTyped, OpOK
  <2>3. AllListed' /\ Paired'
    BY <1>1, <1>2, <2>1 DEF BuddyInv, AllListed, Paired, On
  <2> QED BY <1>3, <2>2, <2>3 DEF BuddyInv
<1> QED BY <1>4, <1>5

\* alloc returns.
LEMMA InvReturn ==
  ASSUME BuddyInv, Return
  PROVE  BuddyInv'
<1>1. /\ op.at = "return" /\ op' = Idle /\ UNCHANGED <<order, free, lists, torn>>
      /\ held' = [b \in DOMAIN held \cup {op.b} |-> IF b = op.b THEN op.n ELSE held[b]]
  BY DEF Return
<1>2. Walk' = Walk
  BY <1>1, WalkNow
<1>3. /\ (order \in [Cells -> Orders \cup {NoSize}])' /\ (free \in [Cells -> BOOLEAN])'
      /\ Tiling(Walk, order)' /\ ListsOK'
  BY <1>1, <1>2 DEF BuddyInv, Tiling, ListsOK
<1>4. op.b \in Walk /\ ~free[op.b] /\ op.n <= Basic * Pow(order[op.b])
  BY <1>1 DEF BuddyInv, OpOK, Idle
<1>5. HeldOK'
  BY <1>1, <1>2, <1>4 DEF BuddyInv, HeldOK
<1>6. OpTyped' /\ OpOK'
  BY <1>1, CellsAre, BuddyAssumption DEF OpTyped, OpOK, Idle
<1>7. AllListed'
  BY <1>1, <1>2 DEF BuddyInv, AllListed, On
<1>8. Paired'
  BY <1>1, IdlePairs DEF Paired, On
<1> QED BY <1>3, <1>5, <1>6, <1>7, <1>8 DEF BuddyInv

\* split makes two headers of one.
LEMMA InvSplit ==
  ASSUME BuddyInv, Split
  PROVE  BuddyInv'
<1>0. /\ MaxOrder \in Nat /\ Orders = 0 .. MaxOrder /\ Walk \subseteq Cells
      /\ \A c \in Walk : order[c] \in Orders
      /\ \A j \in Orders : Good(lists[j])
      /\ \A j \in Orders : \A c : On(c, j) => c \in Walk /\ order[c] = j /\ free[c]
  BY InvFacts
<1>1. PICK k : k = op.k
  OBVIOUS
<1>2. PICK b : b = Head(lists[k])
  OBVIOUS
<1>3. PICK n : n = op.n
  OBVIOUS
<1>4. /\ op.at = "split" /\ Splits(b, n)
      /\ UNCHANGED <<held, torn>>
      /\ op' = [op EXCEPT !.k = @ - 1]
  BY <1>1, <1>2, <1>3 DEF Split
<1>5. /\ k \in Orders /\ n \in Needs /\ lists[k] # <<>>
      /\ \A j \in Orders : j < k /\ Fits(j, n) => lists[j] = <<>>
  BY <1>1, <1>3, <1>4 DEF BuddyInv, OpOK, Idle
<1>6. /\ On(b, k) /\ Good(Tail(lists[k]))
      /\ Elts(Tail(lists[k])) = Elts(lists[k]) \ {b}
  BY <1>0, <1>2, <1>5, GoodTail DEF On
<1>7. b \in Walk /\ order[b] = k /\ free[b] /\ b \in Cells
  BY <1>0, <1>5, <1>6
<1>8. PICK j \in Nat : k = j + 1 /\ j = k - 1 /\ j \in Orders /\ j < k /\ j # k
  <2>1. k \in Nat /\ k <= MaxOrder /\ k > 0
    BY <1>0, <1>4, <1>5, <1>7 DEF Splits
  <2>2. k - 1 \in Nat /\ k = (k - 1) + 1 /\ k - 1 \in Orders /\ k - 1 < k /\ k - 1 # k
    BY <1>0, <2>1
  <2> QED BY <2>2
<1>9. Fits(j, n) /\ lists[j] = <<>>
  <2>1. Basic * 2 ^ j > n
    BY <1>4, <1>7, <1>8 DEF Splits
  <2>2. PICK x \in Nat : x = Basic * 2 ^ j
    <3>1. Pow(j) \in Nat
      BY PowType
    <3> QED BY <3>1, BuddyAssumption DEF Pow
  <2>3. n \in Nat
    BY <1>3 DEF BuddyInv, OpTyped
  <2>4. Fits(j, n)
    BY <2>1, <2>2, <2>3 DEF Fits
  <2> QED BY <1>5, <1>8, <2>4
<1>10. PICK right : right = b + Pow(j)
  OBVIOUS
<1>11. /\ order' = [order EXCEPT ![b] = j, ![right] = j]
       /\ free' = [free EXCEPT ![right] = TRUE]
       /\ lists' = [lists EXCEPT ![k] = Tail(lists[k]), ![j] = <<b, right>>]
  <2>1. b + 2 ^ (order[b] - 1) = right
    BY <1>7, <1>8, <1>10 DEF Pow
  <2>2. order[b] - 1 = j /\ k - 1 = j
    BY <1>7, <1>8
  <2> QED BY <1>1, <1>2, <2>1, <2>2 DEF Split
<1>12. order \in [Cells -> Orders \cup {NoSize}] /\ free \in [Cells -> BOOLEAN]
       /\ Tiling(Walk, order) /\ DOMAIN lists = Orders
  BY DEF BuddyInv, ListsOK
<1>13. PICK ord2 : /\ ord2 = [order EXCEPT ![b] = j, ![right] = j]
                   /\ ord2 = order'
  BY <1>11
<1>a. right # b
  <2>1. b \in Nat /\ Pow(j) \in Nat /\ Pow(j) > 0
    BY <1>7, CellsAre, PowType
  <2> QED BY <1>10, <2>1
<1>b. right \in Cells
  <2>1. b + Pow(k) <= Top /\ Pow(k) = 2 * Pow(j) /\ b \in Nat
    BY <1>7, <1>8, <1>12, TileFacts, PowNext
  <2>2. Pow(j) \in Nat /\ Pow(j) > 0
    BY PowType
  <2> QED BY <1>10, <2>1, <2>2, CellsAre
<1>14. /\ ord2[b] = j /\ ord2[right] = j
       /\ \A c \in Cells : c # b /\ c # right => ord2[c] = order[c]
       /\ ord2 \in [Cells -> Orders \cup {NoSize}]
  BY <1>7, <1>8, <1>12, <1>13, <1>a, <1>b
<1>c. PICK B : B = Walk
  OBVIOUS
<1>d. b \in B /\ right \notin B /\ Tiling(B \cup {right}, ord2)
  <2>1. PICK ord1 : ord1 = order
    OBVIOUS
  <2>2. Tiling(B, ord1) /\ ord1[b] = j + 1 /\ b \in B
    BY <1>7, <1>8, <1>12, <1>c, <2>1
  <2>3. right \notin B
    <3>1. ASSUME right \in B PROVE FALSE
      <4>0. b < right => b + Pow(ord1[b]) <= right
        BY <2>2, <3>1 DEF Tiling
      <4>1. b < right => b + Pow(j + 1) <= right
        BY <2>2, <4>0
      <4>2. Pow(j + 1) = 2 * Pow(j) /\ Pow(j) \in Nat /\ Pow(j) > 0
        BY PowNext, PowType
      <4>3. b \in Nat
        BY <1>7, CellsAre
      <4> QED BY <1>10, <4>1, <4>2, <4>3
    <3> QED BY <3>1
  <2>4. \A c \in B : c # b => ord2[c] = ord1[c]
    BY <1>0, <1>14, <1>c, <2>1, <2>3
  <2>5. Tiling(B \cup {right}, ord2)
    BY <1>10, <1>14, <2>2, <2>4, TileSplit
  <2> QED BY <2>2, <2>3, <2>5
<1>15. Walk' = Walk \cup {right} /\ right \notin Walk /\ Tiling(Walk, order)'
  <2>1. WalkOf(ord2) = B \cup {right}
    BY <1>d, WalkIs
  <2>2. Walk' = B \cup {right}
    BY <1>13, <2>1, WalkNow
  <2> QED BY <1>13, <1>c, <1>d, <2>2
<1>16. /\ order' \in [Cells -> Orders \cup {NoSize}] /\ free' \in [Cells -> BOOLEAN]
       /\ order'[b] = j /\ order'[right] = j /\ free'[right] /\ free'[b]
       /\ \A c \in Walk : c # b => order'[c] = order[c]
       /\ \A c \in Walk : free'[c] = free[c]
  BY <1>0, <1>7, <1>11, <1>12, <1>13, <1>14, <1>15, <1>b
<1>17. /\ DOMAIN lists' = Orders /\ lists'[k] = Tail(lists[k]) /\ lists'[j] = <<b, right>>
       /\ \A i \in Orders : i # k /\ i # j => lists'[i] = lists[i]
  BY <1>5, <1>8, <1>11, <1>12
<1>18. Good(<<b, right>>) /\ Elts(<<b, right>>) = {b, right} /\ Head(<<b, right>>) = b
  BY <1>7, <1>a, <1>b, GoodPair
\* What is on the lists now.
<1>19. /\ \A c : On(c, k)' <=> On(c, k) /\ c # b
       /\ \A c : On(c, j)' <=> c \in {b, right}
       /\ \A i \in Orders : i # k /\ i # j => \A c : On(c, i)' <=> On(c, i)
  BY <1>6, <1>17, <1>18 DEF On
<1>20. ListsOK'
  <2>1. ASSUME NEW i \in Orders PROVE Good(lists'[i])
    BY <1>0, <1>6, <1>17, <1>18
  <2>2. ASSUME NEW i \in Orders, NEW c, On(c, i)'
        PROVE  c \in Walk' /\ order'[c] = i /\ free'[c]
    <3>1. CASE i = j
      BY <1>7, <1>15, <1>16, <1>19, <2>2, <3>1
    <3>2. CASE i # j
      <4>1. On(c, i) /\ (i = k => c # b)
        BY <1>19, <2>2, <3>2
      <4>2. c \in Walk /\ order[c] = i /\ free[c] /\ c # b
        BY <1>0, <1>7, <4>1
      <4> QED BY <1>15, <1>16, <4>2
    <3> QED BY <3>1, <3>2
  <2> QED BY <1>17, <2>1, <2>2 DEF ListsOK, On
<1>21. op'.at = "split" /\ op'.k = j /\ op'.n = n /\ op'.b = op.b /\ OpTyped'
  BY <1>1, <1>3, <1>4, <1>8 DEF BuddyInv, OpTyped
<1>22. AllListed'
  <2>1. ASSUME NEW c \in Walk', free'[c] PROVE On(c, order[c])'
    <3>1. CASE c \in {b, right}
      <4>1. order'[c] = j
        BY <1>16, <3>1
      <4>2. On(c, j)'
        BY <1>19, <3>1
      <4> QED BY <4>1, <4>2 DEF On
    <3>2. CASE c \notin {b, right}
      <4>1. c \in Walk /\ order'[c] = order[c] /\ free[c]
        BY <1>15, <1>16, <2>1, <3>2
      <4>2. On(c, order[c]) /\ order[c] \in Orders
        BY <1>0, <1>4, <4>1 DEF BuddyInv, AllListed
      <4>3. order[c] # j
        BY <1>9, <4>2, GoodEmpty DEF On
      <4>4. PICK i \in Orders : i = order[c] /\ On(c, i) /\ i # j
        BY <4>2, <4>3
      <4>5. On(c, i)'
        BY <1>19, <3>2, <4>4
      <4> QED BY <4>1, <4>4, <4>5 DEF On
    <3> QED BY <3>1, <3>2
  <2> QED BY <2>1 DEF AllListed
<1>23. HeldOK'
  <2>1. ASSUME NEW c \in DOMAIN held
        PROVE  c \in Walk' /\ ~free'[c] /\ held[c] <= Basic * Pow(order'[c])
    <3>1. c \in Walk /\ ~free[c] /\ held[c] <= Basic * Pow(order[c])
      BY DEF BuddyInv, HeldOK
    <3>2. c # b
      BY <1>7, <3>1
    <3> QED BY <1>15, <1>16, <3>1, <3>2
  <2> QED BY <1>4, <2>1 DEF HeldOK
<1>24. OpOK'
  <2>1. lists'[j] # <<>>
    BY <1>17
  <2>2. ASSUME NEW i \in Orders, i < j, Fits(i, n) PROVE lists'[i] = <<>>
    <3>1. i < k /\ i # k /\ i # j
      BY <1>0, <1>8, <2>2
    <3> QED BY <1>5, <1>17, <2>2, <3>1
  <2> QED BY <1>5, <1>8, <1>9, <1>21, <2>1, <2>2 DEF OpOK, Fits
<1>25. Paired'
  <2>1. ASSUME ~torn, NEW i \in 0 .. MaxOrder - 1, NEW c \in Cells, On(c, i)', On(BuddyOf(c, i), i)'
        PROVE  i = j /\ b \in {c, BuddyOf(c, i)}
    <3>0. i \in Orders
      BY <1>0
    <3>1. CASE i = j
      <4>1. c \in {b, right} /\ BuddyOf(c, j) \in {b, right}
        BY <1>19, <2>1, <3>1
      <4>2. c \in Walk' /\ order'[c] = j
        BY <1>16, <1>15, <1>7, <4>1
      <4>3. BuddyOf(c, j) # c
        <5>1. PICK ord3, B3 : ord3 = order' /\ B3 = Walk'
          OBVIOUS
        <5>2. Tiling(B3, ord3) /\ c \in B3 /\ ord3[c] = j
          BY <1>15, <4>2, <5>1
        <5>3. PICK m \in Nat : c = m * Pow(j)
          BY <5>2 DEF Tiling
        <5> QED BY <5>3, BuddyBack
      <4> QED BY <3>1, <4>1, <4>3
    <3>2. CASE i # j
      <4>1. /\ On(c, i) /\ On(BuddyOf(c, i), i)
            /\ i = k => c # b /\ BuddyOf(c, i) # b
        BY <1>19, <2>1, <3>0, <3>2
      <4>2. op.k = i /\ Head(lists[i]) \in {c, BuddyOf(c, i)}
        BY <1>4, <2>1, <4>1 DEF BuddyInv, Paired
      <4> QED BY <1>1, <1>2, <4>1, <4>2
    <3> QED BY <3>1, <3>2
  <2>2. Head(lists'[j]) = b /\ torn' = torn
    BY <1>4, <1>17, <1>18
  <2> QED BY <1>21, <2>1, <2>2 DEF Paired
<1> QED BY <1>15, <1>16, <1>20, <1>21, <1>22, <1>23, <1>24, <1>25 DEF BuddyInv

\* alloc marks the block as used.
LEMMA InvTake ==
  ASSUME BuddyInv, Take
  PROVE  BuddyInv'
<1>0. /\ MaxOrder \in Nat /\ Orders = 0 .. MaxOrder /\ Walk \subseteq Cells
      /\ \A c \in Walk : order[c] \in Orders
      /\ \A j \in Orders : Good(lists[j])
      /\ \A j \in Orders : \A c : On(c, j) => c \in Walk /\ order[c] = j /\ free[c]
  BY InvFacts
<1>1. PICK k : k = op.k
  OBVIOUS
<1>2. PICK b : b = Head(lists[k])
  OBVIOUS
<1>3. /\ op.at = "split" /\ UNCHANGED <<order, held, torn>>
      /\ lists' = [lists EXCEPT ![k] = Tail(lists[k])]
      /\ free' = [free EXCEPT ![b] = FALSE]
      /\ op' = [op EXCEPT !.at = "return", !.b = b]
  BY <1>1, <1>2 DEF Take
<1>4. k \in Orders /\ lists[k] # <<>> /\ Fits(k, op.n)
  BY <1>1, <1>3 DEF BuddyInv, OpOK, Idle
<1>5. On(b, k) /\ Good(Tail(lists[k])) /\ Elts(Tail(lists[k])) = Elts(lists[k]) \ {b}
  BY <1>0, <1>2, <1>4, GoodTail DEF On
<1>6. b \in Walk /\ order[b] = k /\ b \in Cells
  BY <1>0, <1>4, <1>5
<1>7. /\ order \in [Cells -> Orders \cup {NoSize}] /\ free \in [Cells -> BOOLEAN]
      /\ Tiling(Walk, order) /\ DOMAIN lists = Orders
  BY DEF BuddyInv, ListsOK
<1>8. Walk' = Walk /\ Tiling(Walk, order)' /\ order' \in [Cells -> Orders \cup {NoSize}]
  BY <1>3, <1>7, WalkNow
<1>9. /\ free' \in [Cells -> BOOLEAN] /\ ~free'[b]
      /\ \A c \in Walk : c # b => free'[c] = free[c]
  BY <1>0, <1>3, <1>6, <1>7
<1>10. /\ DOMAIN lists' = Orders /\ lists'[k] = Tail(lists[k])
       /\ \A i \in Orders : i # k => lists'[i] = lists[i]
  BY <1>3, <1>4, <1>7
<1>11. \A i \in Orders : \A c : On(c, i)' <=> On(c, i) /\ (i = k => c # b)
  BY <1>5, <1>10 DEF On
<1>12. ListsOK'
  <2>1. ASSUME NEW i \in Orders PROVE Good(lists'[i])
    BY <1>0, <1>5, <1>10
  <2>2. ASSUME NEW i \in Orders, NEW c, On(c, i)'
        PROVE  c \in Walk /\ order[c] = i /\ free'[c]
    <3>1. c \in Walk /\ order[c] = i /\ free[c] /\ c # b
      BY <1>0, <1>6, <1>11, <2>2
    <3> QED BY <1>9, <3>1
  <2> QED BY <1>3, <1>8, <1>10, <2>1, <2>2 DEF ListsOK, On
<1>13. op'.at = "return" /\ op'.b = b /\ op'.n = op.n /\ OpTyped'
  BY <1>3, <1>6 DEF BuddyInv, OpTyped
<1>14. AllListed'
  <2>1. ASSUME NEW c \in Walk, free'[c] PROVE On(c, order[c])'
    <3>1. c # b /\ free[c]
      BY <1>9, <2>1
    <3>2. PICK i \in Orders : i = order[c] /\ On(c, i)
      BY <1>0, <1>3, <3>1 DEF BuddyInv, AllListed
    <3>3. On(c, i)'
      BY <1>11, <3>1, <3>2
    <3> QED BY <1>3, <3>2, <3>3 DEF On
  <2> QED BY <1>8, <2>1 DEF AllListed
<1>15. HeldOK'
  <2>1. ASSUME NEW c \in DOMAIN held
        PROVE  c \in Walk /\ ~free'[c] /\ held[c] <= Basic * Pow(order[c])
    <3>1. c \in Walk /\ ~free[c] /\ held[c] <= Basic * Pow(order[c])
      BY DEF BuddyInv, HeldOK
    <3> QED BY <1>9, <3>1
  <2> QED BY <1>3, <1>8, <2>1 DEF HeldOK
<1>16. OpOK'
  <2>1. op'.n <= Basic * Pow(order'[b])
    BY <1>3, <1>4, <1>6, <1>13 DEF Fits, Pow
  <2> QED BY <1>6, <1>8, <1>9, <1>13, <2>1 DEF OpOK
<1>17. Paired'
  <2>1. ASSUME ~torn, NEW i \in 0 .. MaxOrder - 1, NEW c \in Cells, On(c, i)', On(BuddyOf(c, i), i)'
        PROVE  FALSE
    <3>0. i \in Orders
      BY <1>0
    <3>1. /\ On(c, i) /\ On(BuddyOf(c, i), i)
          /\ i = k => c # b /\ BuddyOf(c, i) # b
      BY <1>11, <2>1, <3>0
    <3>2. op.k = i /\ Head(lists[i]) \in {c, BuddyOf(c, i)}
      BY <1>3, <2>1, <3>1 DEF BuddyInv, Paired
    <3> QED BY <1>1, <1>2, <3>1, <3>2
  <2> QED BY <1>3, <2>1 DEF Paired
<1> QED BY <1>8, <1>9, <1>12, <1>13, <1>14, <1>15, <1>16, <1>17 DEF BuddyInv

\* The lists the recovering constructor builds are those the process had.
LEMMA InvRestart ==
  ASSUME BuddyInv, Restart
  PROVE  BuddyInv'
<1>0. /\ MaxOrder \in Nat /\ Orders = 0 .. MaxOrder /\ Walk \subseteq Cells
      /\ \A c \in Walk : order[c] \in Orders
      /\ \A j \in Orders : Good(lists[j])
      /\ \A j \in Orders : \A c : On(c, j) => c \in Walk /\ order[c] = j /\ free[c]
  BY InvFacts
<1>1. /\ lists' = Rebuilt /\ op' = Idle /\ torn' = (torn \/ op # Idle)
      /\ UNCHANGED <<order, free, held>>
  BY DEF Restart
<1>2. Walk' = Walk
  BY <1>1, WalkNow
<1>3. /\ (order \in [Cells -> Orders \cup {NoSize}])' /\ (free \in [Cells -> BOOLEAN])'
      /\ Tiling(Walk, order)' /\ HeldOK'
  BY <1>1, <1>2 DEF BuddyInv, Tiling, HeldOK
<1>4. ASSUME NEW i \in Orders
      PROVE  /\ Good(lists'[i])
             /\ \A c : On(c, i)' <=> c \in Walk /\ free[c] /\ order[c] = i
  <2>1. PICK S : S = {b \in Walk : free[b] /\ order[b] = i}
    OBVIOUS
  <2>2. S \in SUBSET Cells
    BY <1>0, <2>1
  <2>3. lists'[i] = Inserted(S)
    BY <1>1, <2>1 DEF Rebuilt
  <2>4. Good(Inserted(S)) /\ Elts(Inserted(S)) = S
    BY <2>2, GoodInserted
  <2>5. Good(lists'[i]) /\ Elts(lists'[i]) = S
    BY <2>3, <2>4
  <2> QED BY <2>1, <2>5 DEF On
<1>5. ListsOK'
  <2>1. DOMAIN lists' = Orders
    BY <1>1 DEF Rebuilt
  <2> QED BY <1>1, <1>2, <1>4, <2>1 DEF ListsOK, On
<1>6. AllListed'
  <2>1. ASSUME NEW c \in Walk, free[c] PROVE On(c, order[c])'
    <3>1. PICK i \in Orders : i = order[c]
      BY <1>0
    <3>2. On(c, i)'
      BY <1>4, <2>1, <3>1
    <3> QED BY <1>1, <3>1, <3>2 DEF On
  <2> QED BY <1>1, <1>2, <2>1 DEF AllListed
<1>7. OpTyped' /\ OpOK'
  BY <1>1, CellsAre, BuddyAssumption DEF OpTyped, OpOK, Idle
<1>8. Paired'
  <2>1. ASSUME ~torn', NEW i \in 0 .. MaxOrder - 1, NEW c \in Cells, On(c, i)', On(BuddyOf(c, i), i)'
        PROVE  FALSE
    <3>0. i \in Orders /\ ~torn /\ op = Idle
      <4>1. ~torn /\ op = Idle
        BY <1>1, <2>1, Zenon
      <4> QED BY <1>0, <4>1
    <3>1. ASSUME NEW d, On(d, i)' PROVE On(d, i)
      <4>1. d \in Walk /\ free[d] /\ order[d] = i
        BY <1>4, <3>0, <3>1
      <4> QED BY <3>0, <4>1 DEF BuddyInv, AllListed, Idle
    <3>2. On(c, i) /\ On(BuddyOf(c, i), i)
      BY <2>1, <3>1
    <3>3. op.at \notin {"split", "merge"}
      BY <3>0 DEF Idle
    <3> QED BY <2>1, <3>0, <3>2, <3>3, IdlePairs
  <2> QED BY <2>1 DEF Paired
<1> QED BY <1>3, <1>5, <1>6, <1>7, <1>8 DEF BuddyInv

\* The buddy of a block of a list, and the block again as its buddy.
LEMMA ListedBuddy ==
  ASSUME BuddyInv, NEW c \in Walk
  PROVE  BuddyOf(BuddyOf(c, order[c]), order[c]) = c /\ BuddyOf(c, order[c]) # c
<1>1. PICK B, ord : B = Walk /\ ord = order
  OBVIOUS
<1>2. Tiling(B, ord) /\ c \in B
  BY <1>1 DEF BuddyInv
<1>3. PICK k \in Nat, m \in Nat : k = ord[c] /\ c = m * Pow(k)
  BY <1>2, TileFacts
<1>4. BuddyOf(BuddyOf(c, k), k) = c /\ BuddyOf(c, k) # c
  BY <1>3, BuddyBack
<1> QED BY <1>1, <1>3, <1>4

\* free marks the block and puts it on its list.
LEMMA InvFree ==
  ASSUME BuddyInv, NEW b \in DOMAIN held, EqualBuddies(b), Free(b)
  PROVE  BuddyInv'
<1>0. /\ MaxOrder \in Nat /\ Orders = 0 .. MaxOrder /\ Walk \subseteq Cells
      /\ \A c \in Walk : order[c] \in Orders
      /\ \A j \in Orders : Good(lists[j])
      /\ \A j \in Orders : \A c : On(c, j) => c \in Walk /\ order[c] = j /\ free[c]
  BY InvFacts
<1>1. PICK k : k = order[b]
  OBVIOUS
<1>2. PICK other : other = BuddyOf(b, k)
  OBVIOUS
<1>3. /\ op = Idle /\ UNCHANGED <<order, torn>>
      /\ free' = [free EXCEPT ![b] = TRUE]
      /\ held' = [x \in DOMAIN held \ {b} |-> held[x]]
  BY DEF Free, Restrict
<1>4. b \in Walk /\ ~free[b] /\ b \in Cells /\ k \in Orders
  BY <1>0, <1>1 DEF BuddyInv, HeldOK
<1>5. /\ order \in [Cells -> Orders \cup {NoSize}] /\ free \in [Cells -> BOOLEAN]
      /\ Tiling(Walk, order) /\ DOMAIN lists = Orders
  BY DEF BuddyInv, ListsOK
<1>6. Walk' = Walk /\ Tiling(Walk, order)' /\ order' \in [Cells -> Orders \cup {NoSize}]
  BY <1>3, <1>5, WalkNow
<1>7. /\ free' \in [Cells -> BOOLEAN] /\ free'[b]
      /\ \A c \in Cells : c # b => free'[c] = free[c]
  BY <1>3, <1>4, <1>5
<1>8. HeldOK'
  <2>1. ASSUME NEW c \in DOMAIN held \ {b}
        PROVE  c \in Walk /\ ~free'[c] /\ held[c] <= Basic * Pow(order[c])
    <3>1. c \in Walk /\ ~free[c] /\ held[c] <= Basic * Pow(order[c])
      BY DEF BuddyInv, HeldOK
    <3> QED BY <1>0, <1>7, <3>1
  <2> QED BY <1>3, <1>6, <2>1 DEF HeldOK
<1>9. ~On(b, k) /\ other # b /\ BuddyOf(other, k) = b
  BY <1>0, <1>1, <1>2, <1>4, ListedBuddy
<1>10. CASE other \in Cells /\ free[other] /\ order[other] = k
  <2>1. op' = [at |-> "merge", b |-> b, k |-> k, n |-> 0] /\ lists' = lists
    BY <1>1, <1>2, <1>10 DEF Free
  <2>2. OpTyped'
    BY <1>4, <2>1 DEF OpTyped
  <2>3. \A i : \A c : On(c, i)' <=> On(c, i)
    BY <2>1 DEF On
  <2>4. ListsOK'
    <3>1. ASSUME NEW i \in Orders, NEW c \in Elts(lists[i])
          PROVE  c \in Walk /\ order[c] = i /\ free'[c]
      <4>1. On(c, i)
        BY DEF On
      <4>2. c \in Walk /\ order[c] = i /\ free[c] /\ c # b
        BY <1>0, <1>4, <4>1
      <4> QED BY <1>0, <1>7, <4>2
    <3> QED BY <1>0, <1>3, <1>5, <1>6, <2>1, <3>1 DEF ListsOK
  <2>5. AllListed'
    <3>1. ASSUME NEW c \in Walk, free'[c], c # b PROVE On(c, order[c])
      BY <1>0, <1>3, <1>7, <3>1 DEF BuddyInv, AllListed, Idle
    <3> QED BY <1>3, <1>6, <2>1, <2>3, <3>1 DEF AllListed
  <2>6. k < MaxOrder
    <3>1. PICK B, ord : B = Walk /\ ord = order
      OBVIOUS
    <3>2. Tiling(B, ord) /\ b \in B /\ BuddyOf(b, ord[b]) \in Cells
      BY <1>1, <1>2, <1>4, <1>5, <1>10, <3>1
    <3> QED BY <1>1, <3>1, <3>2, BuddyOfAll
  <2>7. PICK s : s = [b |-> b, k |-> k, order |-> order, lists |-> lists,
                      free |-> [free EXCEPT ![b] = TRUE]]
    OBVIOUS
  <2>8. Merging(op.b, op.k, free)' = s /\ Merging(b, order[b], [free EXCEPT ![b] = TRUE]) = s
    BY <1>1, <1>3, <2>1, <2>7 DEF Merging
  <2>9. Merges(s)
    <3>1. s.k = k /\ Other(s) = other /\ s.free = free'
      BY <1>1, <1>2, <1>3, <2>7 DEF Other
    <3>2. free'[other]
      BY <1>7, <1>9, <1>10
    <3> QED BY <2>6, <3>1, <3>2 DEF Merges
  <2>10. EqualFrom(s)
    BY <2>8 DEF EqualBuddies, EqualFrom
  <2>11. EqualAhead' /\ Merges(Merging(op.b, op.k, free))'
    BY <2>8, <2>9, <2>10 DEF EqualAhead
  <2>12. OpOK'
    BY <1>1, <1>3, <1>4, <1>6, <1>7, <2>1, <2>11 DEF OpOK
  <2>13. Paired'
    <3>1. op.at \notin {"split", "merge"}
      BY <1>3 DEF Idle
    <3> QED BY <1>3, <2>3, <3>1, IdlePairs DEF Paired
  <2> QED BY <1>6, <1>7, <1>8, <2>2, <2>4, <2>5, <2>12, <2>13 DEF BuddyInv
<1>11. CASE ~(other \in Cells /\ free[other] /\ order[other] = k)
  <2>1. op' = op /\ lists' = [lists EXCEPT ![k] = <<b>> \o lists[k]]
    BY <1>1, <1>2, <1>11 DEF Free
  <2>2. OpTyped' /\ OpOK'
    BY <1>3, <2>1 DEF BuddyInv, OpTyped, OpOK
  <2>3. Good(<<b>> \o lists[k]) /\ Elts(<<b>> \o lists[k]) = Elts(lists[k]) \cup {b}
    BY <1>0, <1>4, <1>9, GoodCons DEF On
  <2>4. /\ DOMAIN lists' = Orders /\ lists'[k] = <<b>> \o lists[k]
        /\ \A i \in Orders : i # k => lists'[i] = lists[i]
    BY <1>4, <1>5, <2>1
  <2>5. \A i \in Orders : \A c : On(c, i)' <=> On(c, i) \/ (i = k /\ c = b)
    BY <2>3, <2>4 DEF On
  <2>6. ListsOK'
    <3>1. ASSUME NEW i \in Orders PROVE Good(lists'[i])
      BY <1>0, <2>3, <2>4
    <3>2. ASSUME NEW i \in Orders, NEW c, On(c, i)'
          PROVE  c \in Walk /\ order[c] = i /\ free'[c]
      <4>1. CASE i = k /\ c = b
        BY <1>1, <1>4, <1>7, <4>1
      <4>2. CASE On(c, i)
        <5>1. c \in Walk /\ order[c] = i /\ free[c] /\ c # b
          BY <1>0, <1>4, <4>2
        <5> QED BY <1>0, <1>7, <5>1
      <4> QED BY <2>5, <3>2, <4>1, <4>2
    <3> QED BY <1>3, <1>6, <2>4, <3>1, <3>2 DEF ListsOK, On
  <2>7. AllListed'
    <3>1. ASSUME NEW c \in Walk, free'[c] PROVE On(c, order[c])'
      <4>1. PICK i \in Orders : i = order[c]
        BY <1>0
      <4>2. On(c, i)'
        <5>1. CASE c = b
          BY <1>1, <2>5, <4>1, <5>1
        <5>2. CASE c # b
          <6>1. On(c, order[c])
            BY <1>0, <1>3, <1>7, <3>1, <5>2 DEF BuddyInv, AllListed, Idle
          <6> QED BY <2>5, <4>1, <6>1
        <5> QED BY <5>1, <5>2
      <4> QED BY <1>3, <4>1, <4>2 DEF On
    <3> QED BY <1>6, <3>1 DEF AllListed
  <2>8. Paired'
    <3>1. ASSUME ~torn, NEW i \in 0 .. MaxOrder - 1, NEW c \in Cells, On(c, i)', On(BuddyOf(c, i), i)'
          PROVE  FALSE
      <4>0. i \in Orders
        BY <1>0
      <4>1. ~On(other, k)
        BY <1>0, <1>4, <1>11
      <4>2. CASE i = k /\ c = b
        <5>1. On(other, k)' /\ other # b
          BY <1>2, <1>9, <3>1, <4>2
        <5> QED BY <1>4, <2>5, <4>1, <5>1
      <4>3. CASE i = k /\ BuddyOf(c, k) = b
        <5>1. c # b => On(c, k)
          BY <2>5, <3>1, <4>0, <4>3
        <5>2. c \in Walk /\ order[c] = k
          BY <1>0, <1>1, <1>4, <5>1
        <5>3. BuddyOf(b, k) = c /\ c # b
          BY <4>3, <5>2, ListedBuddy
        <5> QED BY <1>2, <4>1, <5>1, <5>3
      <4>4. CASE ~(i = k /\ c = b) /\ ~(i = k /\ BuddyOf(c, i) = b)
        <5>1. On(c, i) /\ On(BuddyOf(c, i), i)
          BY <2>5, <3>1, <4>0, <4>4
        <5>2. op.at \notin {"split", "merge"}
          BY <1>3 DEF Idle
        <5> QED BY <3>1, <5>1, <5>2, IdlePairs
      <4> QED BY <4>2, <4>3, <4>4
    <3> QED BY <1>3, <3>1 DEF Paired
  <2> QED BY <1>6, <1>7, <1>8, <2>2, <2>6, <2>7, <2>8 DEF BuddyInv
<1> QED BY <1>10, <1>11

\* The two blocks a round of the loop joins: an aligned lower half, and the upper one.
LEMMA Halves ==
  ASSUME NEW k \in Nat, NEW m \in Nat, NEW b, b = m * Pow(k), NEW o, o = BuddyOf(b, k),
         NEW low, low = Min({b, o}), NEW high, high = IF low = b THEN o ELSE b
  PROVE  /\ {low, high} = {b, o} /\ low # high /\ high = low + Pow(k)
         /\ \E q \in Nat : low = q * Pow(k + 1)
<1>1. PICK p \in Nat : p = Pow(k) /\ p > 0
  BY PowType
<1>2. PICK q \in Nat : \/ b = q * Pow(k + 1) /\ o = q * Pow(k + 1) + p
                       \/ b = q * Pow(k + 1) + p /\ o = q * Pow(k + 1)
  BY <1>1, BuddyHalves
<1>3. PICK x \in Nat : x = q * Pow(k + 1)
  <2>1. Pow(k + 1) \in Nat
    BY PowType
  <2> QED BY <2>1
<1>4. (b = x /\ o = x + p) \/ (b = x + p /\ o = x)
  BY <1>2, <1>3
<1>5. {b, o} = {x, x + p} /\ {x, x + p} \in SUBSET Nat /\ {x, x + p} # {}
  BY <1>1, <1>4
<1>a. PICK S : S = {x, x + p}
  OBVIOUS
<1>b. S \in SUBSET Nat /\ S # {} /\ low = Min(S)
  BY <1>5, <1>a
<1>6. low \in {x, x + p} /\ \A y \in {x, x + p} : low <= y
  BY <1>a, <1>b, MinOf
<1>7. low = x
  BY <1>1, <1>6
<1>8. high = x + p /\ x # x + p
  BY <1>1, <1>4, <1>7
<1> QED BY <1>1, <1>3, <1>5, <1>7, <1>8

\* One turn of the loop of free.
LEMMA InvMerge ==
  ASSUME BuddyInv, Merge
  PROVE  BuddyInv'
<1>0. /\ MaxOrder \in Nat /\ Orders = 0 .. MaxOrder /\ Walk \subseteq Cells
      /\ \A c \in Walk : order[c] \in Orders
      /\ \A j \in Orders : Good(lists[j])
      /\ \A j \in Orders : \A c : On(c, j) => c \in Walk /\ order[c] = j /\ free[c]
  BY InvFacts
<1>1. PICK b, k, s : b = op.b /\ k = op.k /\ s = Merging(op.b, op.k, free)
  OBVIOUS
<1>2. op.at = "merge" /\ UNCHANGED <<free, held, torn>>
  BY DEF Merge
<1>3. /\ b \in Walk /\ free[b] /\ k \in Orders /\ order[b] = k
      /\ On(b, k) \/ Merges(s)
      /\ EqualFrom(s)
  BY <1>1, <1>2 DEF BuddyInv, OpOK, Idle, EqualAhead
<1>4. s = [b |-> b, k |-> k, order |-> order, lists |-> lists, free |-> free]
  BY <1>1 DEF Merging
<1>5. /\ DOMAIN s = Fields /\ s = [x \in Fields |-> s[x]] /\ s.k = k /\ s.b = b
      /\ s.order = order /\ s.free = free /\ s.lists = lists
  BY <1>4 DEF Fields
<1>6. PICK o : o = BuddyOf(b, k) /\ Other(s) = o
  BY <1>3, <1>5 DEF Other
<1>7. o # b /\ BuddyOf(o, k) = b
  BY <1>3, <1>6, ListedBuddy
<1>8. /\ order \in [Cells -> Orders \cup {NoSize}] /\ free \in [Cells -> BOOLEAN]
      /\ Tiling(Walk, order) /\ DOMAIN lists = Orders /\ k \in Nat
  BY <1>0, <1>3 DEF BuddyInv, ListsOK
<1>9. CASE ~Merges(s)
  <2>1. op' = Idle /\ UNCHANGED <<order, lists>> /\ On(b, k)
    BY <1>1, <1>3, <1>9 DEF Merge
  <2>2. Walk' = Walk
    BY <2>1, WalkNow
  <2>3. /\ (order \in [Cells -> Orders \cup {NoSize}])' /\ (free \in [Cells -> BOOLEAN])'
        /\ Tiling(Walk, order)' /\ ListsOK' /\ HeldOK'
    BY <1>2, <2>1, <2>2 DEF BuddyInv, Tiling, ListsOK, HeldOK
  <2>4. OpTyped' /\ OpOK'
    BY <2>1, CellsAre, BuddyAssumption DEF OpTyped, OpOK, Idle
  <2>5. AllListed'
    <3>1. ASSUME NEW c \in Walk, free[c] PROVE On(c, order[c])
      BY <1>1, <1>3, <2>1, <3>1 DEF BuddyInv, AllListed
    <3> QED BY <1>2, <2>1, <2>2, <3>1 DEF AllListed, On
  <2>6. Paired'
    <3>1. ASSUME ~torn, NEW i \in 0 .. MaxOrder - 1, NEW c \in Cells, On(c, i), On(BuddyOf(c, i), i)
          PROVE  FALSE
      <4>1. k = i /\ b \in {c, BuddyOf(c, i)}
        BY <1>1, <1>2, <3>1 DEF BuddyInv, Paired
      <4>2. On(o, k)
        <5>1. CASE b = c
          BY <1>6, <3>1, <4>1, <5>1
        <5>2. CASE b = BuddyOf(c, i)
          <6>1. c \in Walk /\ order[c] = k
            BY <1>0, <1>3, <3>1, <4>1
          <6>2. BuddyOf(b, k) = c
            BY <4>1, <5>2, <6>1, ListedBuddy
          <6> QED BY <1>6, <3>1, <4>1, <6>2
        <5> QED BY <4>1, <5>1, <5>2
      <4>3. free[o] /\ k < MaxOrder
        BY <1>0, <1>3, <4>1, <4>2
      <4> QED BY <1>5, <1>6, <1>9, <4>3 DEF Merges
    <3> QED BY <1>2, <2>1, <3>1 DEF Paired, On
  <2> QED BY <2>3, <2>4, <2>5, <2>6 DEF BuddyInv
<1>10. CASE Merges(s)
  <2>1. k < MaxOrder /\ free[o]
    BY <1>5, <1>6, <1>10 DEF Merges
  <2>2. order[o] = k /\ EqualFrom(MergeUp(s))
    BY <1>3, <1>5, <1>6, <1>8, <1>10, EqualStep
  <2>3. o \in Walk
    <3>1. PICK B, ord : B = Walk /\ ord = order
      OBVIOUS
    <3>2. Tiling(B, ord) /\ b \in B /\ ord[b] < MaxOrder
      BY <1>3, <1>8, <2>1, <3>1
    <3>3. BuddyOf(b, ord[b]) \in B
      BY <3>2, BuddyIsBlock
    <3> QED BY <1>3, <1>6, <3>1, <3>3
  <2>4. On(o, k)
    BY <1>1, <1>7, <2>1, <2>2, <2>3 DEF BuddyInv, AllListed
  <2>5. PICK low : low = Min({b, o})
    OBVIOUS
  <2>6. PICK high : high = IF low = b THEN o ELSE b
    OBVIOUS
  <2>7. /\ {low, high} = {b, o} /\ low # high /\ high = low + Pow(k)
        /\ \E q \in Nat : low = q * Pow(k + 1)
    <3>1. PICK m \in Nat : b = m * Pow(k)
      BY <1>3, <1>8 DEF Tiling
    <3> QED BY <1>6, <1>8, <2>5, <2>6, <3>1, Halves, Z3
  <2>8. /\ low \in Walk /\ high \in Walk /\ order[low] = k /\ order[high] = k
        /\ free[low] /\ free[high] /\ low \in Cells /\ high \in Cells
    BY <1>0, <1>3, <2>1, <2>2, <2>3, <2>7
  <2>9. k + 1 \in Orders /\ k + 1 # k /\ k + 1 \in Nat
    BY <1>0, <1>8, <2>1
  <2>10. PICK ord2 : ord2 = [order EXCEPT ![low] = k + 1]
    OBVIOUS
  <2>11. PICK rest : rest = Without(Without(lists[k], b), o)
    OBVIOUS
  <2>12. PICK ls : ls = [lists EXCEPT ![k] = rest, ![k + 1] = <<low>> \o lists[k + 1]]
    OBVIOUS
  <2>13. MergeUp(s) = [b |-> low, k |-> k + 1, order |-> ord2, lists |-> ls, free |-> free]
    <3>1. [s.order EXCEPT ![low] = @ + 1] = ord2
      BY <1>5, <2>8, <2>10
    <3>2. [s.lists EXCEPT ![s.k] = Without(Without(@, s.b), Other(s)),
                          ![s.k + 1] = <<low>> \o @] = ls
      <4>1. PICK l1 : l1 = [lists EXCEPT ![k] = rest]
        OBVIOUS
      <4>2. l1[k + 1] = lists[k + 1]
        BY <1>8, <2>9, <4>1
      <4> QED BY <1>5, <1>6, <1>8, <2>9, <2>11, <2>12, <4>1, <4>2
    <3>3. Min({s.b, Other(s)}) = low
      BY <1>5, <1>6, <2>5
    <3> QED BY <1>5, <3>1, <3>2, <3>3 DEF MergeUp
  <2>14. order' = ord2 /\ lists' = ls /\ op' = [op EXCEPT !.b = low, !.k = k + 1]
    BY <1>1, <1>10, <2>13 DEF Merge
  <2>15. /\ op'.at = "merge" /\ op'.b = low /\ op'.k = k + 1 /\ OpTyped'
    BY <1>2, <2>8, <2>9, <2>14 DEF BuddyInv, OpTyped
  <2>16. /\ order' \in [Cells -> Orders \cup {NoSize}] /\ order'[low] = k + 1
         /\ \A c \in Cells : c # low => order'[c] = order[c]
    BY <1>8, <2>8, <2>9, <2>10, <2>14
  <2>17. Walk' = Walk \ {high} /\ Tiling(Walk, order)'
    <3>1. PICK B, ord1 : B = Walk /\ ord1 = order
      OBVIOUS
    <3>2. Tiling(B, ord1) /\ low \in B /\ high \in B /\ ord1[low] = k /\ ord1[high] = k
      BY <1>8, <2>8, <3>1
    <3>3. ord2[low] = k + 1 /\ \A c \in B : c # low => ord2[c] = ord1[c]
      BY <1>0, <2>14, <2>16, <3>1
    <3>a. PICK q \in Nat : low = q * Pow(k + 1)
      BY <2>7
    <3>b. high = low + Pow(k)
      BY <2>7
    <3>c. k \in Nat /\ k < MaxOrder
      BY <1>8, <2>1
    <3>4. Tiling(B \ {high}, ord2)
      <4>1. Joined(B, ord1, low, high, k, ord2)
        BY <3>2, <3>3, <3>a, <3>b, <3>c DEF Joined
      <4> QED BY <4>1, TileMerge
    <3>5. WalkOf(ord2) = B \ {high}
      BY <3>4, WalkIs
    <3>6. Walk' = B \ {high}
      BY <2>14, <3>5, WalkNow
    <3> QED BY <2>14, <3>1, <3>4, <3>6
  <2>18. Good(rest) /\ Elts(rest) = Elts(lists[k]) \ {b, o}
    <3>1. PICK one : one = Without(lists[k], b)
      OBVIOUS
    <3>2. Good(one) /\ Elts(one) = Elts(lists[k]) \ {b}
      BY <1>0, <1>3, <3>1, GoodWithout
    <3>3. Good(rest) /\ Elts(rest) = Elts(one) \ {o}
      BY <2>11, <3>1, <3>2, GoodWithout
    <3> QED BY <3>2, <3>3
  <2>19. /\ Good(<<low>> \o lists[k + 1])
         /\ Elts(<<low>> \o lists[k + 1]) = Elts(lists[k + 1]) \cup {low}
    <3>1. low \notin Elts(lists[k + 1])
      BY <1>0, <2>8, <2>9 DEF On
    <3> QED BY <1>0, <2>8, <2>9, <3>1, GoodCons
  <2>20. /\ DOMAIN lists' = Orders /\ lists'[k] = rest /\ lists'[k + 1] = <<low>> \o lists[k + 1]
         /\ \A i \in Orders : i # k /\ i # k + 1 => lists'[i] = lists[i]
    BY <1>3, <1>8, <2>9, <2>12, <2>14
  <2>21. /\ \A c : On(c, k)' <=> On(c, k) /\ c \notin {b, o}
         /\ \A c : On(c, k + 1)' <=> On(c, k + 1) \/ c = low
         /\ \A i \in Orders : i # k /\ i # k + 1 => \A c : On(c, i)' <=> On(c, i)
    BY <2>18, <2>19, <2>20 DEF On
  <2>22. ListsOK'
    <3>1. ASSUME NEW i \in Orders PROVE Good(lists'[i])
      BY <1>0, <2>18, <2>19, <2>20
    <3>2. ASSUME NEW i \in Orders, NEW c, On(c, i)'
          PROVE  c \in Walk' /\ order'[c] = i /\ free[c]
      <4>1. CASE i = k + 1 /\ c = low
        BY <2>7, <2>8, <2>16, <2>17, <4>1
      <4>2. CASE ~(i = k + 1 /\ c = low)
        <5>1. On(c, i) /\ (i = k => c \notin {b, o})
          BY <2>9, <2>21, <3>2, <4>2
        <5>2. c \in Walk /\ order[c] = i /\ free[c] /\ c \notin {low, high}
          BY <1>0, <2>7, <2>8, <5>1
        <5> QED BY <1>0, <2>16, <2>17, <5>2
      <4> QED BY <4>1, <4>2
    <3> QED BY <1>2, <2>20, <3>1, <3>2 DEF ListsOK, On
  <2>23. AllListed'
    <3>1. ASSUME NEW c \in Walk', free[c] PROVE On(c, order[c])'
      <4>1. CASE c = low
        <5>1. On(c, k + 1)'
          BY <2>21, <4>1
        <5> QED BY <2>16, <4>1, <5>1 DEF On
      <4>2. CASE c # low
        <5>1. c \in Walk /\ c \notin {b, o} /\ order'[c] = order[c]
          BY <1>0, <2>7, <2>16, <2>17, <4>2
        <5>2. PICK i \in Orders : i = order[c] /\ On(c, i)
          BY <1>0, <1>1, <3>1, <5>1 DEF BuddyInv, AllListed
        <5>3. On(c, i)'
          BY <2>21, <5>1, <5>2
        <5> QED BY <5>1, <5>2, <5>3 DEF On
      <4> QED BY <4>1, <4>2
    <3> QED BY <1>2, <3>1 DEF AllListed
  <2>24. HeldOK'
    <3>1. ASSUME NEW c \in DOMAIN held
          PROVE  c \in Walk' /\ ~free[c] /\ held[c] <= Basic * Pow(order'[c])
      <4>1. c \in Walk /\ ~free[c] /\ held[c] <= Basic * Pow(order[c])
        BY DEF BuddyInv, HeldOK
      <4>2. c \notin {low, high} /\ c \in Cells
        BY <1>0, <2>8, <4>1
      <4> QED BY <2>16, <2>17, <4>1, <4>2
    <3> QED BY <1>2, <3>1 DEF HeldOK
  <2>25. OpOK'
    <3>1. Merging(op.b, op.k, free)' = MergeUp(s)
      BY <1>2, <2>13, <2>14, <2>15 DEF Merging
    <3>2. EqualAhead'
      BY <2>2, <3>1 DEF EqualAhead
    <3>3. On(low, k + 1)'
      BY <2>21
    <3>4. On(op.b, op.k)'
      BY <2>15, <3>3 DEF On
    <3>5. low \in Walk' /\ free'[low]
      BY <1>2, <2>7, <2>8, <2>17
    <3> QED BY <2>9, <2>15, <2>16, <3>2, <3>4, <3>5 DEF OpOK
  <2>26. Paired'
    <3>1. ASSUME ~torn, NEW i \in 0 .. MaxOrder - 1, NEW c \in Cells, On(c, i)', On(BuddyOf(c, i), i)'
          PROVE  i = k + 1 /\ low \in {c, BuddyOf(c, i)}
      <4>0. i \in Orders
        BY <1>0
      <4>1. CASE i = k + 1 /\ low \in {c, BuddyOf(c, i)}
        BY <4>1
      <4>2. CASE ~(i = k + 1 /\ low \in {c, BuddyOf(c, i)})
        <5>1. /\ On(c, i) /\ On(BuddyOf(c, i), i)
              /\ i = k => b \notin {c, BuddyOf(c, i)}
          BY <2>9, <2>21, <3>1, <4>0, <4>2
        <5>2. k = i /\ b \in {c, BuddyOf(c, i)}
          BY <1>1, <1>2, <3>1, <5>1 DEF BuddyInv, Paired
        <5> QED BY <5>1, <5>2
      <4> QED BY <4>1, <4>2
    <3> QED BY <1>2, <2>15, <3>1 DEF Paired
  <2>27. free' \in [Cells -> BOOLEAN]
    BY <1>2, <1>8
  <2> QED BY <2>15, <2>16, <2>17, <2>22, <2>23, <2>24, <2>25, <2>26, <2>27 DEF BuddyInv
<1> QED BY <1>9, <1>10

\* No operation, no death and no recovery breaks the invariant.
LEMMA InvNext == BuddyInv /\ [EqualNext]_vars => BuddyInv'
<1> SUFFICES ASSUME BuddyInv, [EqualNext]_vars PROVE BuddyInv'
  OBVIOUS
<1>1. CASE \E n \in Needs : Alloc(n)
  BY <1>1, InvAlloc
<1>2. CASE \E b \in DOMAIN held : EqualBuddies(b) /\ Free(b)
  BY <1>2, InvFree
<1>3. CASE Split
  BY <1>3, InvSplit
<1>4. CASE Take
  BY <1>4, InvTake
<1>5. CASE Return
  BY <1>5, InvReturn
<1>6. CASE Merge
  BY <1>6, InvMerge
<1>7. CASE Restart
  BY <1>7, InvRestart
<1>8. CASE UNCHANGED vars
  <2>1. UNCHANGED <<order, free, lists, held, op, torn>>
    BY <1>8 DEF vars
  <2>2. Walk' = Walk
    BY <2>1, WalkNow
  <2>3. EqualAhead' <=> EqualAhead
    BY <2>1 DEF EqualAhead, EqualFrom, Merging
  <2>4. /\ (order \in [Cells -> Orders \cup {NoSize}])' /\ (free \in [Cells -> BOOLEAN])'
        /\ OpTyped' /\ Tiling(Walk, order)' /\ ListsOK' /\ AllListed' /\ HeldOK'
    BY <2>1, <2>2 DEF BuddyInv, OpTyped, Tiling, ListsOK, AllListed, HeldOK, On
  <2>5. Paired'
    BY <2>1 DEF BuddyInv, Paired, On
  <2>6. OpOK'
    BY <2>1, <2>2, <2>3 DEF BuddyInv, OpOK, On, Merging
  <2> QED BY <2>4, <2>5, <2>6 DEF BuddyInv
<1> QED BY <1>1, <1>2, <1>3, <1>4, <1>5, <1>6, <1>7, <1>8 DEF EqualNext, Step, Dead

\* The invariant of the specification.
LEMMA InvAlways == EqualSpec => []BuddyInv
<1>1. Init => BuddyInv
  BY InvInit
<1>2. BuddyInv /\ [EqualNext]_vars => BuddyInv'
  BY InvNext
<1> QED BY <1>1, <1>2, PTL DEF EqualSpec
-----------------------------------------------------------------------------
(* What it implies *)

\* Being on a list.
LEMMA ListedIs ==
  ASSUME BuddyInv, NEW k \in Orders
  PROVE  Listed(k) = Elts(lists[k])
<1>1. lists[k] \in Seq(Cells)
  BY InvFacts DEF Good
<1> QED BY <1>1 DEF Listed, ToSet, Elts

\* "block size at index should always be 2^i * bbs": the assertion of BuddyAllocator.cpp
\* about the lists, for regions, blocks and requests of any size, with deaths and recoveries
\* at any step, as long as free meets buddies of equal size.
THEOREM ListsHoldTheirSizes == EqualSpec => []ListHoldsItsSize
<1>1. BuddyInv => ListHoldsItsSize
  <2> SUFFICES ASSUME BuddyInv, NEW k \in Orders
               PROVE  /\ IsInjective(lists[k])
                      /\ \A b \in Listed(k) : order[b] = k /\ free[b]
    BY DEF ListHoldsItsSize
  <2>1. Good(lists[k]) /\ \A c : On(c, k) => order[c] = k /\ free[c]
    BY InvFacts
  <2>2. IsInjective(lists[k])
    <3>1. DOMAIN lists[k] = 1 .. Len(lists[k])
      BY <2>1 DEF Good
    <3> QED BY <2>1, <3>1 DEF Good, IsInjective
  <2> QED BY <2>1, <2>2, ListedIs DEF On
<1> QED BY <1>1, InvAlways, PTL

\* Wherever the process dies, the walk of the recovering constructor meets blocks that cover the
\* region exactly, those in use with headers that say so.
THEOREM BlocksAlwaysTile == EqualSpec => []BlocksTile
<1>1. BuddyInv => BlocksTile
  <2> SUFFICES ASSUME BuddyInv PROVE BlocksTile
    OBVIOUS
  <2>1. PICK B, ord : B = Walk /\ ord = order
    OBVIOUS
  <2>2. Tiling(B, ord)
    BY <2>1 DEF BuddyInv
  <2>3. ASSUME NEW b \in B PROVE Extent(b, ord[b]) = b .. b + Pow(ord[b]) - 1
    <3>1. ord[b] \in Nat
      BY <2>2, TileFacts
    <3> QED BY <3>1, SizeIs DEF Extent
  <2>4. \A b, c \in B : b # c => Extent(b, ord[b]) \cap Extent(c, ord[c]) = {}
    <3>1. ASSUME NEW b \in B, NEW c \in B, b < c
          PROVE  Extent(b, ord[b]) \cap Extent(c, ord[c]) = {}
      <4>1. b + Pow(ord[b]) <= c
        BY <2>2, <3>1 DEF Tiling
      <4>2. b \in Nat /\ c \in Nat /\ Pow(ord[b]) \in Nat /\ Pow(ord[c]) \in Nat
        BY <2>2, TileFacts
      <4>3. \A x \in b .. b + Pow(ord[b]) - 1 : x \notin c .. c + Pow(ord[c]) - 1
        BY <4>1, <4>2
      <4> QED BY <2>3, <4>3
    <3>2. \A b \in B : b \in Nat
      BY <2>2, TileFacts
    <3>3. ASSUME NEW b \in B, NEW c \in B, b # c
          PROVE  Extent(b, ord[b]) \cap Extent(c, ord[c]) = {}
      <4>1. b < c \/ c < b
        BY <3>2, <3>3
      <4> QED BY <3>1, <4>1
    <3> QED BY <3>3
  <2>5. UNION {Extent(b, ord[b]) : b \in B} = Cells
    <3>1. ASSUME NEW c \in Cells PROVE \E b \in B : c \in Extent(b, ord[b])
      <4>1. PICK b \in B : b <= c /\ c < b + Pow(ord[b])
        BY <2>2, Cover
      <4>2. b \in Nat /\ Pow(ord[b]) \in Nat /\ c \in Nat
        BY <2>2, TileFacts, CellsAre
      <4> QED BY <2>3, <4>1, <4>2
    <3>2. ASSUME NEW b \in B, NEW c \in Extent(b, ord[b]) PROVE c \in Cells
      <4>1. b \in Nat /\ Pow(ord[b]) \in Nat /\ b + Pow(ord[b]) <= Top
        BY <2>2, TileFacts
      <4> QED BY <2>3, <4>1, CellsAre
    <3> QED BY <3>1, <3>2
  <2>6. \A b \in DOMAIN held : b \in Walk /\ ~free[b]
    BY DEF BuddyInv, HeldOK
  <2> QED BY <2>1, <2>4, <2>5, <2>6 DEF BlocksTile
<1> QED BY <1>1, InvAlways, PTL

\* Between operations the lists have exactly the free blocks, also when a recovery has built them.
THEOREM FreeAlwaysListed == EqualSpec => []FreeIsListed
<1>1. BuddyInv => FreeIsListed
  <2> SUFFICES ASSUME BuddyInv, op = Idle PROVE OnLists = {b \in Walk : free[b]}
    BY DEF FreeIsListed
  <2>1. /\ \A c \in Walk : order[c] \in Orders
        /\ \A k \in Orders : \A c : On(c, k) => c \in Walk /\ order[c] = k /\ free[c]
    BY InvFacts
  <2>2. ASSUME NEW b \in OnLists PROVE b \in Walk /\ free[b]
    <3>1. PICK k \in Orders : b \in Listed(k)
      BY DEF OnLists
    <3> QED BY <2>1, <3>1, ListedIs DEF On
  <2>3. ASSUME NEW b \in Walk, free[b] PROVE b \in OnLists
    <3>1. On(b, order[b]) /\ order[b] \in Orders
      BY <2>1, <2>3 DEF BuddyInv, AllListed, Idle
    <3>2. b \in Listed(order[b])
      BY <3>1, ListedIs DEF On
    <3> QED BY <3>1, <3>2 DEF OnLists
  <2> QED BY <2>2, <2>3
<1> QED BY <1>1, InvAlways, PTL

\* An object fits the block alloc returned, its header included.
THEOREM AlwaysRoom == EqualSpec => []RoomForRequest
<1>1. BuddyInv => RoomForRequest
  BY DEF BuddyInv, HeldOK, RoomForRequest, Pow
<1> QED BY <1>1, InvAlways, PTL

\* Between operations no list has a block and its buddy, unless the process has died inside one.
THEOREM AlwaysMerged == EqualSpec => []FullyMerged
<1>1. BuddyInv => FullyMerged
  <2> SUFFICES ASSUME BuddyInv, op = Idle, ~torn, NEW k \in 0 .. MaxOrder - 1, NEW b \in Cells,
                      b \in Listed(k)
               PROVE  BuddyOf(b, k) \notin Listed(k)
    BY DEF FullyMerged
  <2>1. k \in Orders
    BY InvFacts
  <2>2. On(b, k) /\ op.at \notin {"split", "merge"}
    BY <2>1, ListedIs DEF On, Idle
  <2>3. ~On(BuddyOf(b, k), k)
    BY <2>2, IdlePairs
  <2> QED BY <2>1, <2>3, ListedIs DEF On
<1> QED BY <1>1, InvAlways, PTL
=============================================================================
