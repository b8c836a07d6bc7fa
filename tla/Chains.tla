------------------------------- MODULE Chains -------------------------------
(***************************************************************************)
(* Facts that the proofs of several components share: a set of numbers has *)
(* a least one, what an iteration computes and when it settles, and facts  *)
(* about singly linked lists.  A list is known by the set of its elements, *)
(* its first element and its length; the links are a function.             *)
(***************************************************************************)
EXTENDS Integers, FiniteSets, FiniteSetTheorems, TLAPS

\* e counts the elements S of the list of length n that starts at h.
Counts(e, S, h, n, lk) ==
  /\ e \in [0 .. n - 1 -> S]
  /\ \A b \in S : \E k \in 0 .. n - 1 : e[k] = b
  /\ \A j, k \in 0 .. n - 1 : e[j] = e[k] => j = k
  /\ n > 0 => e[0] = h
  /\ \A k \in 0 .. n - 2 : lk[e[k]] = e[k + 1]

\* S are the elements of the list of length n that starts at h.
Chain(S, h, n, lk) == \E e : Counts(e, S, h, n, lk)

\* f follows m links, from h on, as long as it finds elements of S.
Walks(f, h, m, S, lk) ==
  f[0] = h /\ \A k \in 0 .. m - 1 : f[k] \in S => f[k + 1] = lk[f[k]]

\* The same as Chain, of a list that ends with l.
ChainTo(S, h, n, lk, l) == \E e : Counts(e, S, h, n, lk) /\ e[n - 1] = l
-----------------------------------------------------------------------------
\* A set of numbers that is not empty has a least element: induction, in the form
\* in which the proofs use it.
LEMMA Least ==
  ASSUME NEW T \in SUBSET Nat, T # {}
  PROVE  \E x \in T : \A y \in T : x <= y
<1> DEFINE R == OpToRel(<, Nat)
<1>1. IsWellFoundedOn(R, Nat)
  BY NatLessThanWellFounded
<1>2. \E x \in T : \A y \in T : ~(<<y, x>> \in R)
  <2> HIDE DEF R
  <2> QED BY <1>1, WFMin, Zenon
<1>3. PICK x \in T : \A y \in T : ~(<<y, x>> \in R)
  BY <1>2
<1>4. ASSUME NEW y \in T PROVE x <= y
  <2>1. ~(<<y, x>> \in {ss \in Nat \X Nat : ss[1] < ss[2]})
    BY <1>3 DEF OpToRel
  <2> QED BY <2>1
<1> QED BY <1>4

\* An increasing chain of n + 1 subsets of a set of n elements has two equal neighbours.
LEMMA ChainStops ==
  ASSUME NEW S, IsFiniteSet(S), NEW n \in Nat, n = Cardinality(S), NEW f,
         \A i \in 0 .. n : f[i] \in SUBSET S,
         \A i \in 0 .. n - 1 : f[i] \subseteq f[i + 1],
         f[0] # {}
  PROVE  \E i \in 0 .. n - 1 : f[i + 1] = f[i]
<1>1. SUFFICES ASSUME \A i \in 0 .. n - 1 : f[i + 1] # f[i] PROVE FALSE
  OBVIOUS
<1>2. \A i \in 0 .. n : IsFiniteSet(f[i]) /\ Cardinality(f[i]) \in Nat /\ Cardinality(f[i]) <= n
  BY FS_Subset, FS_CardinalityType
<1>3. \A i \in 0 .. n - 1 : Cardinality(f[i]) < Cardinality(f[i + 1])
  <2> TAKE i \in 0 .. n - 1
  <2>1. f[i] \in SUBSET f[i + 1] /\ f[i] # f[i + 1] /\ IsFiniteSet(f[i + 1]) /\ i \in 0 .. n
        /\ i + 1 \in 0 .. n
    BY <1>1, <1>2
  <2>2. Cardinality(f[i]) <= Cardinality(f[i + 1])
        /\ (Cardinality(f[i]) = Cardinality(f[i + 1]) => f[i] = f[i + 1])
    BY <2>1, FS_Subset
  <2> QED BY <1>2, <2>1, <2>2
<1> DEFINE c(i) == Cardinality(f[i])
           T == {i \in 0 .. n : ~(c(i) > i)}
<1>4. T = {}
  <2>1. SUFFICES ASSUME T # {} PROVE FALSE
    OBVIOUS
  <2>2. T \in SUBSET Nat
    OBVIOUS
  <2>3. PICK x \in T : \A y \in T : x <= y
    <3> HIDE DEF T
    <3> QED BY <2>1, <2>2, Least
  <2>4. x # 0
    <3>1. c(0) # 0
      <4>1. 0 \in 0 .. n
        OBVIOUS
      <4> QED BY <1>2, <4>1, FS_EmptySet
    <3>2. c(0) \in Nat
      BY <1>2
    <3> QED BY <2>3, <3>1, <3>2
  <2>5. PICK y \in Nat : y = x - 1
    BY <2>3, <2>4
  <2>6. y \in 0 .. n - 1 /\ y + 1 = x /\ y \notin T
    BY <2>3, <2>5
  <2>7. c(y) > y /\ c(y) < c(x) /\ c(y) \in Nat /\ c(x) \in Nat
    <3>1. c(y) > y
      BY <2>6
    <3>2. y \in 0 .. n /\ y + 1 \in 0 .. n
      BY <2>6
    <3> QED BY <1>2, <1>3, <2>6, <3>1, <3>2
  <2>8. c(x) > x
    BY <2>6, <2>7
  <2> QED BY <2>3, <2>8
<1>5. c(n) > n
  <2>1. n \in 0 .. n
    OBVIOUS
  <2> QED BY <1>4, <2>1
<1> QED BY <1>2, <1>5
\* g starts with A, and F makes each value from the last.
Iterated(g, F, A, m, X) ==
  g \in [0 .. m -> X] /\ g[0] = A /\ \A i \in 1 .. m : g[i] = F[g[i - 1]]

\* A function on 0 .. m can be defined by saying how each value follows from the last.
LEMMA Iterates ==
  ASSUME NEW X, NEW F \in [X -> X], NEW A \in X, NEW m \in Nat
  PROVE  \E g : Iterated(g, F, A, m, X)
<1> USE DEF Iterated
<1> DEFINE P(k) == \E g \in [0 .. k -> X] : g[0] = A /\ \A i \in 1 .. k : g[i] = F[g[i - 1]]
           T == {k \in Nat : ~P(k)}
<1>1. SUFFICES T = {}
  OBVIOUS
<1>2. SUFFICES ASSUME T # {} PROVE FALSE
  OBVIOUS
<1>3. PICK x \in T : \A y \in T : x <= y
  <2>1. T \in SUBSET Nat
    OBVIOUS
  <2> HIDE DEF T
  <2> QED BY <1>2, <2>1, Least
<1>4. P(0)
  <2>1. PICK g : g = [i \in 0 .. 0 |-> A]
    OBVIOUS
  <2>2. g \in [0 .. 0 -> X] /\ g[0] = A /\ \A i \in 1 .. 0 : g[i] = F[g[i - 1]]
    BY <2>1
  <2> QED BY <2>2
<1>5. x \in Nat /\ x # 0
  BY <1>3, <1>4
<1>6. PICK y \in Nat : y = x - 1
  BY <1>5
<1>7. P(y)
  <2>1. y \notin T
    <3> HIDE DEF T
    <3> QED BY <1>3, <1>5, <1>6
  <2> QED BY <2>1
<1>8. PICK g \in [0 .. y -> X] : g[0] = A /\ \A i \in 1 .. y : g[i] = F[g[i - 1]]
  BY <1>7
<1>9. PICK h : h = [i \in 0 .. x |-> IF i = x THEN F[g[y]] ELSE g[i]]
  OBVIOUS
<1>10. h \in [0 .. x -> X]
  <2>1. ASSUME NEW i \in 0 .. x PROVE (IF i = x THEN F[g[y]] ELSE g[i]) \in X
    BY <1>5, <1>6, <1>8
  <2> QED BY <1>9, <2>1
<1>11. h[0] = A
  BY <1>5, <1>8, <1>9
<1>12. ASSUME NEW i \in 1 .. x PROVE h[i] = F[h[i - 1]]
  <2>1. CASE i = x
    <3>1. h[i - 1] = g[y] /\ h[i] = F[g[y]]
      BY <1>5, <1>6, <1>9, <2>1
    <3> QED BY <3>1
  <2>2. CASE i # x
    <3>1. i \in 1 .. y /\ i - 1 \in 0 .. x /\ i \in 0 .. x /\ i - 1 # x
      BY <1>5, <1>6, <2>2
    <3>2. h[i] = g[i] /\ h[i - 1] = g[i - 1]
      BY <1>9, <2>2, <3>1
    <3> QED BY <1>8, <3>1, <3>2
  <2> QED BY <2>1, <2>2
<1>13. P(x)
  BY <1>10, <1>11, <1>12
<1> QED BY <1>3, <1>13

\* Once two neighbours of such a function are equal, its last value is a fixpoint.
LEMMA Settles ==
  ASSUME NEW F, NEW n \in Nat, NEW g, \A i \in 1 .. n : g[i] = F[g[i - 1]],
         NEW j \in 0 .. n - 1, g[j + 1] = g[j]
  PROVE  F[g[n]] = g[n]
<1>0. j \in Nat /\ j + 1 \in 1 .. n /\ (j + 1) - 1 = j
  OBVIOUS
<1>1. F[g[j]] = g[j]
  BY <1>0
<1> DEFINE T == {i \in j .. n : g[i] # g[j]}
<1>2. T = {}
  <2>1. SUFFICES ASSUME T # {} PROVE FALSE
    OBVIOUS
  <2>2. PICK x \in T : \A y \in T : x <= y
    <3>1. T \in SUBSET Nat
      BY <1>0
    <3> HIDE DEF T
    <3> QED BY <2>1, <3>1, Least
  <2>3. PICK y \in Nat : y = x - 1
    BY <1>0, <2>2
  <2>4. y \in j .. n /\ y \notin T /\ x \in 1 .. n /\ y = x - 1
    BY <1>0, <2>2, <2>3
  <2>5. g[y] = g[j] /\ g[x] = F[g[x - 1]]
    BY <2>4
  <2>6. g[x] = g[j]
    BY <1>1, <2>4, <2>5
  <2> QED BY <2>2, <2>6
<1>3. n \in j .. n
  BY <1>0
<1>4. g[n] = g[j]
  BY <1>2, <1>3
<1> QED BY <1>1, <1>4

\* A list of length n has n elements.
LEMMA ChainSize ==
  ASSUME NEW S, NEW h, NEW n \in Nat, NEW lk, Chain(S, h, n, lk)
  PROVE  IsFiniteSet(S) /\ Cardinality(S) = n
<1>1. PICK e : Counts(e, S, h, n, lk)
  BY DEF Chain
<1>2. e \in Bijection(0 .. n - 1, S)
  BY <1>1 DEF Counts, Bijection, Injection, Surjection, IsInjective
<1>3. IsFiniteSet(0 .. n - 1) /\ Cardinality(0 .. n - 1) = n
  BY FS_Interval
<1> QED BY <1>2, <1>3, FS_Bijection DEF ExistsBijection

\* The empty list.
LEMMA ChainEmpty ==
  ASSUME NEW h, NEW lk
  PROVE  Chain({}, h, 0, lk)
<1> DEFINE e == [k \in 0 .. -1 |-> h]
<1>1. 0 .. -1 = {} /\ e \in [0 .. -1 -> {}]
  OBVIOUS
<1>2. Counts(e, {}, h, 0, lk)
  BY <1>1 DEF Counts
<1> QED BY <1>2 DEF Chain

\* A list of length 0 has no elements, any other one starts with one.
LEMMA ChainHead ==
  ASSUME NEW S, NEW h, NEW n \in Nat, NEW lk, Chain(S, h, n, lk)
  PROVE  (n = 0 => S = {}) /\ (n > 0 => h \in S)
<1>1. PICK e : Counts(e, S, h, n, lk)
  BY DEF Chain
<1>2. n > 0 => 0 \in 0 .. n - 1
  OBVIOUS
<1>3. n = 0 => 0 .. n - 1 = {}
  OBVIOUS
<1> QED BY <1>1, <1>2, <1>3 DEF Counts

\* Links of other blocks do not matter.
LEMMA ChainFrame ==
  ASSUME NEW S, NEW h, NEW n \in Nat, NEW lk, NEW lk2, Chain(S, h, n, lk),
         \A b \in S : lk2[b] = lk[b]
  PROVE  Chain(S, h, n, lk2)
<1>1. PICK e : Counts(e, S, h, n, lk)
  BY DEF Chain
<1>2. \A k \in 0 .. n - 2 : k \in 0 .. n - 1
  OBVIOUS
<1>3. \A k \in 0 .. n - 2 : lk2[e[k]] = e[k + 1]
  BY <1>1, <1>2 DEF Counts
<1> QED BY <1>1, <1>3 DEF Counts, Chain

\* The same for a list whose last element is known: its own link does not matter.
LEMMA ChainToFrame ==
  ASSUME NEW S, NEW h, NEW n \in Nat, NEW lk, NEW lk2, NEW l, ChainTo(S, h, n, lk, l),
         \A b \in S \ {l} : lk2[b] = lk[b]
  PROVE  ChainTo(S, h, n, lk2, l)
<1>1. PICK e : Counts(e, S, h, n, lk) /\ e[n - 1] = l
  BY DEF ChainTo
<1>2. \A k \in 0 .. n - 2 : k \in 0 .. n - 1 /\ n - 1 \in 0 .. n - 1 /\ k # n - 1
  OBVIOUS
<1>3. \A k \in 0 .. n - 2 : e[k] \in S \ {l}
  BY <1>1, <1>2 DEF Counts
<1>4. \A k \in 0 .. n - 2 : lk2[e[k]] = e[k + 1]
  BY <1>1, <1>3 DEF Counts
<1> QED BY <1>1, <1>4 DEF Counts, ChainTo

\* Taking the first element off.
LEMMA ChainPop ==
  ASSUME NEW S, NEW h, NEW n \in Nat, n > 0, NEW lk, Chain(S, h, n, lk)
  PROVE  h \in S /\ Chain(S \ {h}, lk[h], n - 1, lk)
<1>1. PICK e : Counts(e, S, h, n, lk)
  BY DEF Chain
<1>2. h \in S /\ 0 \in 0 .. n - 1 /\ e[0] = h
  BY <1>1 DEF Counts
<1> DEFINE f == [k \in 0 .. n - 2 |-> e[k + 1]]
<1>3. \A k \in 0 .. n - 2 : k + 1 \in 0 .. n - 1 /\ k + 1 # 0
  OBVIOUS
<1>4. \A k \in 0 .. n - 2 : e[k + 1] \in S /\ e[k + 1] # h
  BY <1>1, <1>2, <1>3 DEF Counts
<1>5. f \in [0 .. n - 2 -> S \ {h}]
  BY <1>4
<1>6. ASSUME NEW b \in S \ {h} PROVE \E k \in 0 .. n - 2 : f[k] = b
  <2>1. PICK k \in 0 .. n - 1 : e[k] = b
    BY <1>1 DEF Counts
  <2>2. k # 0
    BY <1>2, <2>1
  <2>3. k - 1 \in 0 .. n - 2 /\ (k - 1) + 1 = k
    BY <2>2
  <2> QED BY <2>1, <2>3
<1>7. ASSUME NEW j \in 0 .. n - 2, NEW k \in 0 .. n - 2, f[j] = f[k] PROVE j = k
  <2>1. j + 1 = k + 1
    BY <1>1, <1>3, <1>7 DEF Counts
  <2> QED BY <2>1
<1>8. n - 1 > 0 => f[0] = lk[h]
  <2>1. n - 1 > 0 => 0 \in 0 .. n - 2
    OBVIOUS
  <2> QED BY <1>1, <1>2, <2>1 DEF Counts
<1>9. ASSUME NEW k \in 0 .. n - 3 PROVE lk[f[k]] = f[k + 1]
  <2>1. k \in 0 .. n - 2 /\ k + 1 \in 0 .. n - 2
    OBVIOUS
  <2> QED BY <1>1, <2>1 DEF Counts
<1>10. (n - 1) - 1 = n - 2 /\ (n - 1) - 2 = n - 3
  OBVIOUS
<1> HIDE DEF f
<1>11. Counts(f, S \ {h}, lk[h], n - 1, lk)
  BY <1>5, <1>6, <1>7, <1>8, <1>9, <1>10 DEF Counts
<1> QED BY <1>2, <1>11 DEF Chain

\* Putting a list in front of another one: the last element is linked to the first
\* of the other.
LEMMA ChainJoin ==
  ASSUME NEW S, NEW h, NEW n \in Nat, n > 0, NEW lk, NEW l, ChainTo(S, h, n, lk, l),
         NEW T, NEW g, NEW m \in Nat, Chain(T, g, m, lk),
         S \cap T = {}, lk[l] = g
  PROVE  Chain(S \cup T, h, n + m, lk)
<1>1. PICK e : Counts(e, S, h, n, lk) /\ e[n - 1] = l
  BY DEF ChainTo
<1>2. PICK f : Counts(f, T, g, m, lk)
  BY DEF Chain
<1> DEFINE c == [k \in 0 .. n + m - 1 |-> IF k < n THEN e[k] ELSE f[k - n]]
<1>3. \A k \in 0 .. n + m - 1 : IF k < n THEN k \in 0 .. n - 1 ELSE k - n \in 0 .. m - 1
  OBVIOUS
<1>4. \A k \in 0 .. n + m - 1 : c[k] = IF k < n THEN e[k] ELSE f[k - n]
  OBVIOUS
<1>5. ASSUME NEW k \in 0 .. n + m - 1
      PROVE  IF k < n THEN e[k] \in S ELSE f[k - n] \in T
  BY <1>1, <1>2, <1>3 DEF Counts
<1>6. c \in [0 .. n + m - 1 -> S \cup T]
  BY <1>5
<1> HIDE DEF c
<1>7. ASSUME NEW b \in S \cup T PROVE \E k \in 0 .. n + m - 1 : c[k] = b
  <2>1. CASE b \in S
    <3>1. PICK k \in 0 .. n - 1 : e[k] = b
      BY <1>1, <2>1 DEF Counts
    <3>2. k \in 0 .. n + m - 1 /\ k < n
      OBVIOUS
    <3> QED BY <1>4, <3>1, <3>2
  <2>2. CASE b \in T
    <3>1. PICK k \in 0 .. m - 1 : f[k] = b
      BY <1>2, <2>2 DEF Counts
    <3>2. k + n \in 0 .. n + m - 1 /\ ~(k + n < n) /\ (k + n) - n = k
      OBVIOUS
    <3> QED BY <1>4, <3>1, <3>2
  <2> QED BY <2>1, <2>2
<1>8. ASSUME NEW j \in 0 .. n + m - 1, NEW k \in 0 .. n + m - 1, c[j] = c[k] PROVE j = k
  <2>1. CASE j < n /\ k < n
    BY <1>1, <1>3, <1>4, <1>8, <2>1 DEF Counts
  <2>2. CASE ~(j < n) /\ ~(k < n)
    <3>1. j - n = k - n
      BY <1>2, <1>3, <1>4, <1>8, <2>2 DEF Counts
    <3> QED BY <3>1
  <2>3. CASE (j < n) # (k < n)
    BY <1>4, <1>5, <1>8, <2>3
  <2> QED BY <2>1, <2>2, <2>3
<1>9. c[0] = h
  <2>1. 0 \in 0 .. n + m - 1 /\ 0 < n
    OBVIOUS
  <2> QED BY <1>1, <1>4, <2>1 DEF Counts
<1>10. ASSUME NEW k \in 0 .. n + m - 2 PROVE lk[c[k]] = c[k + 1]
  <2>1. k \in 0 .. n + m - 1 /\ k + 1 \in 0 .. n + m - 1
    OBVIOUS
  <2>2. CASE k + 1 < n
    <3>1. k \in 0 .. n - 2 /\ k < n
      BY <2>2
    <3> QED BY <1>1, <1>4, <2>1, <2>2, <3>1 DEF Counts
  <2>3. CASE k + 1 = n
    <3>1. k = n - 1 /\ k < n /\ ~(k + 1 < n) /\ (k + 1) - n = 0 /\ m > 0
      BY <2>3
    <3>2. c[k] = l /\ c[k + 1] = f[0]
      BY <1>1, <1>4, <2>1, <3>1
    <3> QED BY <1>2, <3>1, <3>2 DEF Counts
  <2>4. CASE k + 1 > n
    <3>1. k - n \in 0 .. m - 2 /\ ~(k < n) /\ ~(k + 1 < n) /\ (k + 1) - n = (k - n) + 1
      BY <2>4
    <3> QED BY <1>2, <1>4, <2>1, <3>1 DEF Counts
  <2> QED BY <2>2, <2>3, <2>4
<1>11. Counts(c, S \cup T, h, n + m, lk)
  BY <1>6, <1>7, <1>8, <1>9, <1>10 DEF Counts
<1> QED BY <1>11 DEF Chain

\* A list of one element.
LEMMA ChainOne ==
  ASSUME NEW b, NEW lk
  PROVE  ChainTo({b}, b, 1, lk, b)
<1> DEFINE e == [k \in 0 .. 0 |-> b]
<1>1. \A k \in 0 .. 0 : k = 0 /\ e[k] = b
  OBVIOUS
<1>2. e \in [0 .. 0 -> {b}] /\ 0 \in 0 .. 0 /\ 0 .. 1 - 2 = {}
  OBVIOUS
<1> HIDE DEF e
<1>3. Counts(e, {b}, b, 1, lk) /\ e[1 - 1] = b
  BY <1>1, <1>2 DEF Counts
<1> QED BY <1>3 DEF ChainTo

\* Pushing an element in front.
LEMMA ChainPush ==
  ASSUME NEW S, NEW h, NEW n \in Nat, NEW lk, Chain(S, h, n, lk),
         NEW b, b \notin S, lk[b] = h
  PROVE  Chain(S \cup {b}, b, n + 1, lk)
<1>1. ChainTo({b}, b, 1, lk, b) /\ {b} \cap S = {}
  BY ChainOne
<1>2. Chain({b} \cup S, b, 1 + n, lk)
  BY <1>1, ChainJoin, 1 > 0, 1 \in Nat, Zenon
<1>3. {b} \cup S = S \cup {b} /\ 1 + n = n + 1
  OBVIOUS
<1> QED BY <1>2, <1>3

\* Cutting a list after its first m elements.
LEMMA ChainCut ==
  ASSUME NEW e, NEW S, NEW h, NEW n \in Nat, NEW lk, Counts(e, S, h, n, lk),
         NEW m \in 1 .. n
  PROVE  LET A == {e[k] : k \in 0 .. m - 1}
         IN  /\ A \subseteq S
             /\ ChainTo(A, h, m, lk, e[m - 1])
             /\ Chain(S \ A, lk[e[m - 1]], n - m, lk)
<1> DEFINE A == {e[k] : k \in 0 .. m - 1}
           B == S \ A
           f == [k \in 0 .. m - 1 |-> e[k]]
           g == [k \in 0 .. n - m - 1 |-> e[k + m]]
<1>0. m \in Nat /\ m >= 1 /\ m <= n
  OBVIOUS
<1>1. A \subseteq S /\ \A k \in 0 .. m - 1 : k \in 0 .. n - 1 /\ e[k] \in A
  BY DEF Counts
<1>2. ChainTo(A, h, m, lk, e[m - 1])
  <2>1. f \in [0 .. m - 1 -> A] /\ \A k \in 0 .. m - 1 : f[k] = e[k]
    OBVIOUS
  <2>2. \A b \in A : \E k \in 0 .. m - 1 : f[k] = b
    OBVIOUS
  <2> HIDE DEF f, A
  <2>3. \A j, k \in 0 .. m - 1 : f[j] = f[k] => j = k
    BY <1>1, <2>1 DEF Counts
  <2>4. 0 \in 0 .. m - 1 /\ m - 1 \in 0 .. m - 1 /\ n > 0
    BY <1>0
  <2>5. f[0] = h /\ f[m - 1] = e[m - 1]
    BY <2>1, <2>4 DEF Counts
  <2>6. ASSUME NEW k \in 0 .. m - 2 PROVE lk[f[k]] = f[k + 1]
    <3>1. k \in 0 .. n - 2 /\ k \in 0 .. m - 1 /\ k + 1 \in 0 .. m - 1
      BY <1>0
    <3> QED BY <2>1, <3>1 DEF Counts
  <2>7. Counts(f, A, h, m, lk)
    BY <2>1, <2>2, <2>3, <2>5, <2>6 DEF Counts
  <2> QED BY <2>5, <2>7 DEF ChainTo
<1>3. Chain(B, lk[e[m - 1]], n - m, lk)
  <2>1. \A k \in 0 .. n - m - 1 : k + m \in 0 .. n - 1 /\ g[k] = e[k + m]
    BY <1>0
  <2>2. ASSUME NEW k \in 0 .. n - m - 1 PROVE e[k + m] \in B
    <3>1. e[k + m] \in S
      BY <2>1 DEF Counts
    <3>2. ASSUME NEW j \in 0 .. m - 1, e[j] = e[k + m] PROVE FALSE
      <4>1. j = k + m
        BY <1>1, <2>1, <3>2 DEF Counts
      <4> QED BY <4>1
    <3> QED BY <3>1, <3>2
  <2>3. g \in [0 .. n - m - 1 -> B]
    BY <2>2
  <2> HIDE DEF g
  <2>4. ASSUME NEW b \in B PROVE \E k \in 0 .. n - m - 1 : g[k] = b
    <3>1. PICK k \in 0 .. n - 1 : e[k] = b
      BY DEF Counts
    <3>2. ~(k < m)
      BY <3>1
    <3>3. k - m \in 0 .. n - m - 1 /\ (k - m) + m = k
      BY <1>0, <3>2
    <3> QED BY <2>1, <3>1, <3>3
  <2> HIDE DEF A, B
  <2>5. ASSUME NEW j \in 0 .. n - m - 1, NEW k \in 0 .. n - m - 1, g[j] = g[k] PROVE j = k
    <3>1. j + m = k + m
      BY <2>1, <2>5 DEF Counts
    <3> QED BY <3>1
  <2>6. ASSUME n - m > 0 PROVE g[0] = lk[e[m - 1]]
    <3>1. 0 \in 0 .. n - m - 1 /\ m - 1 \in 0 .. n - 2 /\ 0 + m = (m - 1) + 1
      BY <1>0, <2>6
    <3> QED BY <2>1, <3>1 DEF Counts
  <2>7. ASSUME NEW k \in 0 .. n - m - 2 PROVE lk[g[k]] = g[k + 1]
    <3>1. /\ k \in 0 .. n - m - 1 /\ k + 1 \in 0 .. n - m - 1
          /\ k + m \in 0 .. n - 2 /\ (k + 1) + m = (k + m) + 1
      BY <1>0
    <3>2. g[k] = e[k + m] /\ g[k + 1] = e[(k + m) + 1]
      BY <2>1, <3>1
    <3>3. lk[e[k + m]] = e[(k + m) + 1]
      BY <3>1 DEF Counts
    <3> QED BY <3>2, <3>3
  <2>8. Counts(g, B, lk[e[m - 1]], n - m, lk)
    BY <2>3, <2>4, <2>5, <2>6, <2>7 DEF Counts
  <2> QED BY <2>8 DEF Chain
<1> QED BY <1>1, <1>2, <1>3

\* A walk along the links passes the elements one after the other.
LEMMA ChainWalk ==
  ASSUME NEW e, NEW S, NEW h, NEW n \in Nat, NEW lk, Counts(e, S, h, n, lk),
         NEW m \in 0 .. n - 1, NEW f, Walks(f, h, m, S, lk)
  PROVE  \A k \in 0 .. m : f[k] = e[k]
<1> DEFINE T == {k \in 0 .. m : f[k] # e[k]}
<1>1. ASSUME T # {} PROVE FALSE
  <2>0. T \in SUBSET Nat
    OBVIOUS
  <2>1. PICK x \in T : \A y \in T : x <= y
    <3> HIDE DEF T
    <3> QED BY <1>1, <2>0, Least
  <2>2. n > 0 /\ f[0] = e[0]
    BY DEF Counts, Walks
  <2>3. x # 0 /\ x \in 0 .. m
    BY <2>1, <2>2
  <2>4. x - 1 \in 0 .. m - 1 /\ x - 1 \in 0 .. n - 2 /\ x - 1 \in 0 .. m /\ (x - 1) + 1 = x
        /\ x - 1 \in 0 .. n - 1
    BY <2>3
  <2>5. f[x - 1] = e[x - 1]
    BY <2>1, <2>4
  <2>6. e[x - 1] \in S
    BY <2>4 DEF Counts
  <2>7. f[x] = e[x]
    BY <2>4, <2>5, <2>6 DEF Counts, Walks
  <2> QED BY <2>1, <2>7
<1> QED BY <1>1
=============================================================================
