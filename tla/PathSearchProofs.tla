--------------------------- MODULE PathSearchProofs ---------------------------
(***************************************************************************)
(* Theorems about PathSearch and WholeSearch: the open list is a heap of    *)
(* the open nodes, paths lead back to the start, the end is found if links  *)
(* lead there, and slices find what FindPath finds.                         *)
(***************************************************************************)
EXTENDS WholeSearch, Induction, SequenceTheorems, FiniteSetTheorems

\* A sequence of elements of S is one of elements of a larger set.
LEMMA SeqLarger == ASSUME NEW S, NEW T, S \subseteq T, NEW q \in Seq(S) PROVE q \in Seq(T)
<1>1. \A k \in 1..Len(q) : q[k] \in T
  OBVIOUS
<1> QED
  BY <1>1

----------------------------------------------------------------------------
(* Positions of the heap *)

\* The positions above i hold its parent, and with a position its parent.
LEMMA AboveClosed ==
    ASSUME NEW i \in Nat, i >= 2
    PROVE  /\ i \div 2 \in Above(i)
           /\ \A a \in Above(i) : a >= 2 => a \div 2 \in Above(i)
           /\ \A a \in Above(i) : a \in Nat /\ 1 <= a /\ a <= i \div 2 /\ a < i
<1> DEFINE parent == i \div 2
           Closed(S) == parent \in S /\ \A b \in S \ {1} : b \div 2 \in S
<1>1. parent \in 1..parent /\ parent < i
  OBVIOUS
<1>2. Above(i) = {a \in 1..parent : \A S \in SUBSET (1..parent) : Closed(S) => a \in S}
  BY DEF Above
<1>3. ASSUME NEW a \in Above(i), a >= 2 PROVE a \div 2 \in Above(i)
  <2>1. a \in 1..parent /\ a \div 2 \in 1..parent
    BY <1>1, <1>2, <1>3
  <2>2. ASSUME NEW S \in SUBSET (1..parent), Closed(S) PROVE a \div 2 \in S
    BY <1>2, <1>3, <2>2
  <2> HIDE DEF Closed
  <2> QED
    BY <1>2, <2>1, <2>2
<1>4. parent \in Above(i)
  BY <1>1, <1>2
<1> HIDE DEF Closed
<1>5. \A a \in Above(i) : a \in 1..parent
  BY <1>2
<1> QED
  BY <1>1, <1>3, <1>4, <1>5

\* No position is above the top.
LEMMA AboveTop == Above(1) = {} /\ Above(0) = {}
  BY DEF Above

\* They are the fewest of that kind.
LEMMA AboveLeast ==
    ASSUME NEW i \in Nat, i >= 2, NEW S, i \div 2 \in S, \A b \in S : b \in Nat,
           \A b \in S : b >= 2 => b \div 2 \in S
    PROVE  Above(i) \subseteq S
<1> DEFINE parent == i \div 2
           T == {b \in S : 1 <= b /\ b <= parent}
<1>1. parent \in T /\ T \in SUBSET (1..parent)
  OBVIOUS
<1>2. \A b \in T \ {1} : b \div 2 \in T
  <2> SUFFICES ASSUME NEW b \in T \ {1} PROVE b \div 2 \in T
    OBVIOUS
  <2>1. b \in S /\ b \in Nat /\ b >= 2 /\ b <= parent
    OBVIOUS
  <2>2. b \div 2 \in S /\ 1 <= b \div 2 /\ b \div 2 <= parent
    BY <2>1
  <2> QED
    BY <2>2
<1>3. \A a \in Above(i) : a \in T
  <2> HIDE DEF T
  <2> QED
    BY <1>1, <1>2 DEF Above
<1> QED
  BY <1>3

\* Position i and the positions above it.
Branch(i) == {i} \cup Above(i)

\* A branch reaches the top and is closed under parents.
LEMMA BranchClosed ==
    ASSUME NEW i \in Nat \ {0}
    PROVE  /\ i \in Branch(i) /\ 1 \in Branch(i)
           /\ \A a \in Branch(i) : a \in Nat /\ 1 <= a /\ a <= i
           /\ \A a \in Branch(i) : a >= 2 => a \div 2 \in Branch(i)
<1>1. CASE i = 1
  <2>1. Branch(i) = {1}
    BY <1>1, AboveTop DEF Branch
  <2> QED
    BY <1>1, <2>1
<1>2. CASE i # 1
  <2>1. /\ i \div 2 \in Branch(i)
        /\ \A a \in Branch(i) : a >= 2 => a \div 2 \in Branch(i)
        /\ \A a \in Branch(i) : a \in Nat /\ 1 <= a /\ a <= i
        /\ i \in Branch(i)
    BY <1>2, AboveClosed DEF Branch
  <2>2. 1 \in Branch(i)
    <3>1. PICK m \in Branch(i) : \A a \in Branch(i) : m <= a
      <4>1. Branch(i) \subseteq Nat /\ Branch(i) # {}
        BY <2>1
      <4> QED
        BY <4>1, Smallest
    <3>2. m \in Nat /\ m >= 1 /\ (m >= 2 => m <= m \div 2)
      BY <2>1, <3>1
    <3>3. m = 1
      BY <3>2
    <3> QED
      BY <3>1, <3>3
  <2> QED
    BY <2>1, <2>2
<1> QED
  BY <1>1, <1>2

\* Above i there is the branch of its parent.
LEMMA AboveBranch ==
    ASSUME NEW i \in Nat, i >= 2
    PROVE  Above(i) = Branch(i \div 2)
<1>1. i \div 2 \in Nat \ {0}
  OBVIOUS
<1>2. Above(i) \subseteq Branch(i \div 2)
  BY <1>1, BranchClosed, AboveLeast
<1>3. Branch(i \div 2) \subseteq Above(i)
  <2>1. CASE i \div 2 = 1
    BY <2>1, AboveTop, AboveClosed DEF Branch
  <2>2. CASE i \div 2 # 1
    <3>1. i \div 2 >= 2
      BY <1>1, <2>2
    <3>2. (i \div 2) \div 2 \in Above(i)
      BY <3>1, AboveClosed
    <3>3. Above(i \div 2) \subseteq Above(i)
      BY <1>1, <3>1, <3>2, AboveClosed, AboveLeast
    <3> QED
      BY <3>3, AboveClosed DEF Branch
  <2> QED
    BY <2>1, <2>2
<1> QED
  BY <1>2, <1>3

\* The positions of a branch lie in a row: none is between another and its parent.
LEMMA BranchInRow ==
    ASSUME NEW i \in Nat \ {0}
    PROVE  \A a, b \in Branch(i) : a < b => a <= b \div 2
<1> DEFINE InRow(j) == \A a, b \in Branch(j) : a < b => a <= b \div 2
           T == {j \in Nat \ {0} : ~InRow(j)}
<1>1. SUFFICES ASSUME T # {} PROVE FALSE
  OBVIOUS
<1>2. PICK j \in T : \A k \in T : j <= k
  <2>1. T \subseteq Nat
    OBVIOUS
  <2> HIDE DEF T
  <2> QED
    BY <1>1, <2>1, Smallest
<1>3. j \in Nat \ {0} /\ ~InRow(j)
  OBVIOUS
<1>4. CASE j = 1
  <2>1. Branch(j) = {1}
    BY <1>4, AboveTop DEF Branch
  <2> QED
    BY <1>3, <2>1
<1>5. CASE j >= 2
  <2>1. j \div 2 \in Nat \ {0} /\ j \div 2 < j
    BY <1>3, <1>5
  <2>2. InRow(j \div 2)
    <3>1. j \div 2 \notin T
      BY <1>2, <1>3, <2>1
    <3> QED
      BY <2>1, <3>1
  <2>3. Branch(j) = {j} \cup Branch(j \div 2)
    BY <1>3, <1>5, AboveBranch DEF Branch
  <2>4. \A a \in Branch(j \div 2) : a \in Nat /\ a <= j \div 2
    BY <2>1, BranchClosed
  <2>5. InRow(j)
    BY <1>3, <2>1, <2>2, <2>3, <2>4
  <2> QED
    BY <1>3, <2>5
<1> QED
  BY <1>3, <1>4, <1>5

----------------------------------------------------------------------------
(* The heap *)

\* The positions whose entries BubbleUp moves, and where n comes to lie.
Moving(key, h, i, n) == {i} \cup Sinking(key, h, i, n)

InRow(key, h, i, n, moving, m) ==
    /\ i \in moving /\ m \in moving
    /\ \A p \in moving : p \in DOMAIN h /\ m <= p /\ p <= i
    /\ \A p \in moving : p # m => p >= 2 /\ p \div 2 \in moving
    /\ \A p \in moving : p # i => key[h[p]] > key[n]
    /\ m >= 2 => key[h[m \div 2]] <= key[n]

\* They go from i up in a row, past entries that are larger than n and no others.
LEMMA MovingRow ==
    ASSUME NEW N, NEW key \in [N -> Int], NEW h \in Seq(N), NEW i \in DOMAIN h, NEW n \in N,
           NEW moving, moving = Moving(key, h, i, n), NEW m, m = Min(moving)
    PROVE  InRow(key, h, i, n, moving, m)
<1>1. /\ Len(h) \in Nat /\ DOMAIN h = 1..Len(h) /\ i \in Nat \ {0}
      /\ \A p \in DOMAIN h : h[p] \in N
  OBVIOUS
<1>2. /\ \A a \in Branch(i) : a \in Nat /\ 1 <= a /\ a <= i
      /\ \A a \in Branch(i) : a >= 2 => a \div 2 \in Branch(i)
      /\ \A a, b \in Branch(i) : a < b => a <= b \div 2
  BY <1>1, BranchClosed, BranchInRow
<1>3. i \notin Above(i)
  <2>1. CASE i = 1
    BY <2>1, AboveTop
  <2>2. CASE i # 1
    <3>1. i \in Nat /\ i >= 2
      BY <1>1, <2>2
    <3>2. \A a \in Above(i) : a < i
      BY <3>1, AboveClosed, Zenon
    <3>3. ~(i < i)
      BY <3>1
    <3> QED
      BY <3>2, <3>3, Zenon
  <2> QED
    BY <2>1, <2>2
<1>4. \A a \in Branch(i) : a # i => a \in Above(i)
  BY DEF Branch
<1>5. \A a : a \in moving <=>
         a = i \/ (a \in Above(i) /\ \A b \in Above(i) : b >= a => key[h[b]] > key[n])
  BY DEF Moving, Sinking
<1>6. moving \subseteq Branch(i) /\ i \in moving
  BY <1>5 DEF Branch
<1>7. m \in moving /\ \A p \in moving : m <= p
  <2>1. moving \subseteq Nat /\ moving # {}
    BY <1>2, <1>6
  <2> QED
    BY <2>1, SmallestIsMin
<1>8. \A p \in moving : p \in DOMAIN h /\ p <= i /\ p \in Nat
  BY <1>1, <1>2, <1>6
<1>9. ASSUME NEW p \in moving, p # m PROVE p >= 2 /\ p \div 2 \in moving
  <2>1. m < p /\ p >= 2 /\ p \in Branch(i) /\ m \in Branch(i) /\ m # i
    BY <1>2, <1>6, <1>7, <1>8, <1>9
  <2>2. m <= p \div 2 /\ p \div 2 \in Branch(i) /\ p \div 2 < p
    BY <1>2, <2>1
  <2>3. p \div 2 \in Above(i)
    BY <1>4, <1>8, <2>2
  <2>4. \A b \in Above(i) : b >= m => key[h[b]] > key[n]
    BY <1>5, <1>7, <2>1
  <2>5. \A b \in Above(i) : b >= p \div 2 => b >= m
    BY <1>2, <1>8, <2>1, <2>2 DEF Branch
  <2> QED
    BY <1>5, <2>1, <2>3, <2>4, <2>5
<1>10. ASSUME NEW p \in moving, p # i PROVE key[h[p]] > key[n]
  <2>1. p \in Above(i) /\ \A b \in Above(i) : b >= p => key[h[b]] > key[n]
    BY <1>5, <1>10
  <2> QED
    BY <1>8, <2>1
<1>11. ASSUME m >= 2 PROVE key[h[m \div 2]] <= key[n]
  <2>1. m \in Branch(i) /\ m \in Nat /\ m \div 2 \in Branch(i) /\ m \div 2 < m /\ m <= i
    BY <1>2, <1>6, <1>7, <1>8, <1>11
  <2>2. m \div 2 \in Above(i) /\ m \div 2 \notin moving
    BY <1>4, <1>7, <2>1
  <2>3. PICK b \in Above(i) : b >= m \div 2 /\ ~(key[h[b]] > key[n])
    BY <1>5, <2>2
  <2>4. b \in Branch(i) /\ b \in Nat /\ b # i
    BY <1>2, <1>3 DEF Branch
  <2>5. ~(b >= m)
    <3>1. CASE m = i
      BY <1>2, <2>4, <3>1
    <3>2. CASE m # i
      <4>1. \A c \in Above(i) : c >= m => key[h[c]] > key[n]
        BY <1>5, <1>7, <3>2
      <4> QED
        BY <2>3, <4>1
    <3> QED
      BY <3>1, <3>2
  <2>6. b = m \div 2
    <3>1. b < m
      BY <2>1, <2>4, <2>5
    <3>2. b <= m \div 2
      BY <1>2, <2>1, <2>4, <3>1
    <3> QED
      BY <2>1, <2>3, <2>4, <3>2
  <2>7. b \in DOMAIN h
    BY <1>1, <1>2, <2>4
  <2>8. key[h[b]] \in Int /\ key[n] \in Int
    BY <1>1, <2>7
  <2> QED
    BY <2>3, <2>6, <2>8
<1> QED
  BY <1>6, <1>7, <1>8, <1>9, <1>10, <1>11 DEF InRow

\* What BubbleUp may be given: a heap but for position i, below whose parent
\* and n the entries under it have to be.
Bubbling(key, h, i, n) ==
    /\ \A q \in 2..Len(h) : q # i /\ q \div 2 # i => key[h[q \div 2]] <= key[h[q]]
    /\ \A q \in 2..Len(h) : q \div 2 = i =>
          key[n] <= key[h[q]] /\ (i >= 2 => key[h[i \div 2]] <= key[h[q]])

\* It makes a heap of that.
LEMMA BubbleUpHeap ==
    ASSUME NEW N, NEW key \in [N -> Int], NEW h \in Seq(N), NEW i \in DOMAIN h, NEW n \in N,
           Bubbling(key, h, i, n)
    PROVE  /\ BubbleUp(key, h, i, n) \in Seq(N)
           /\ Len(BubbleUp(key, h, i, n)) = Len(h)
           /\ HeapOrdered(key, BubbleUp(key, h, i, n))
<1> DEFINE g == BubbleUp(key, h, i, n)
<1> HIDE DEF g
<1>1. PICK moving : moving = Moving(key, h, i, n)
  OBVIOUS
<1>2. PICK m : m = Min(moving)
  OBVIOUS
<1>3. /\ i \in moving /\ m \in moving
      /\ \A p \in moving : p \in DOMAIN h /\ m <= p /\ p <= i
      /\ \A p \in moving : p # m => p >= 2 /\ p \div 2 \in moving
      /\ \A p \in moving : p # i => key[h[p]] > key[n]
      /\ m >= 2 => key[h[m \div 2]] <= key[n]
  <2>1. InRow(key, h, i, n, moving, m)
    BY <1>1, <1>2, MovingRow
  <2> QED
    BY <2>1 DEF InRow
<1>4. g = [p \in DOMAIN h |-> IF p = m THEN n ELSE IF p \in moving THEN h[p \div 2] ELSE h[p]]
  BY <1>1, <1>2 DEF BubbleUp, Moving, g
<1>5. /\ Len(h) \in Nat /\ DOMAIN h = 1..Len(h) /\ \A p \in DOMAIN h : h[p] \in N
  OBVIOUS
<1>6. \A p \in DOMAIN h : g[p] = IF p = m THEN n ELSE IF p \in moving THEN h[p \div 2] ELSE h[p]
  BY <1>4
<1>7. /\ g \in [1..Len(h) -> N]
  BY <1>3, <1>4, <1>5
<1>8. g \in Seq(N) /\ Len(g) = Len(h)
  <2>1. g \in Seq(N)
    BY <1>5, <1>7, SeqDef
  <2>2. DOMAIN g = 1..Len(h)
    BY <1>7
  <2> QED
    BY <1>5, <2>1, <2>2, LenProperties
<1>9. \A p \in DOMAIN h : key[h[p]] \in Int /\ key[n] \in Int
  BY <1>5
<1>10. ASSUME NEW q \in 2..Len(h) PROVE key[g[q \div 2]] <= key[g[q]]
  <2> DEFINE p == q \div 2
  <2>1. /\ q \in DOMAIN h /\ p \in DOMAIN h /\ p < q /\ q >= 2
        /\ q # i /\ p # i => key[h[p]] <= key[h[q]]
        /\ p = i => key[n] <= key[h[q]] /\ (i >= 2 => key[h[i \div 2]] <= key[h[q]])
    BY <1>5 DEF Bubbling
  <2>2. /\ p >= 2 => p \div 2 \in DOMAIN h /\ p \in 2..Len(h) /\ p \div 2 < p
        /\ p \in Nat /\ q \in Nat /\ m \in Nat /\ i \in Nat
    BY <1>3, <1>5, <2>1
  <2>3. p >= 2 /\ p # i /\ p \div 2 # i => key[h[p \div 2]] <= key[h[p]]
    BY <2>2 DEF Bubbling
  <2> HIDE DEF p
  <2>4. CASE q \in moving /\ q # m
    <3>1. p \in moving /\ g[q] = h[p] /\ p # i
      BY <1>3, <1>6, <2>1, <2>2, <2>4 DEF p
    <3>2. CASE p = m
      <4>1. g[p] = n
        BY <1>6, <2>1, <3>2
      <4> QED
        BY <1>3, <1>9, <2>1, <3>1, <4>1 DEF p
    <3>3. CASE p # m
      <4>1. g[p] = h[p \div 2] /\ p >= 2
        BY <1>3, <1>6, <2>1, <3>1, <3>3
      <4>2. p \div 2 # i
        BY <1>3, <2>1, <2>2, <2>4, <4>1
      <4> QED
        BY <2>3, <3>1, <4>1, <4>2 DEF p
    <3> QED
      BY <3>2, <3>3
  <2>5. CASE q = m
    <3>1. p \notin moving
      BY <1>3, <2>1, <2>2, <2>5
    <3>2. g[q] = n /\ g[p] = h[p]
      BY <1>3, <1>6, <2>1, <2>5, <3>1
    <3> QED
      BY <1>3, <2>1, <2>5, <3>2 DEF p
  <2>6. CASE q \notin moving /\ p \in moving
    <3>1. g[q] = h[q] /\ q # i
      BY <1>3, <1>6, <2>1, <2>6
    <3>2. CASE p = m
      <4>1. g[p] = n
        BY <1>6, <2>1, <3>2
      <4>2. CASE p = i
        BY <2>1, <3>1, <4>1, <4>2 DEF p
      <4>3. CASE p # i
        <5>1. key[h[p]] > key[n] /\ key[h[p]] <= key[h[q]]
          BY <1>3, <2>1, <2>6, <3>1, <4>3
        <5> QED
          BY <1>9, <2>1, <3>1, <4>1, <5>1 DEF p
      <4> QED
        BY <4>2, <4>3
    <3>3. CASE p # m
      <4>1. g[p] = h[p \div 2] /\ p >= 2
        BY <1>3, <1>6, <2>1, <2>6, <3>3
      <4>2. CASE p = i
        BY <2>1, <3>1, <4>1, <4>2 DEF p
      <4>3. CASE p # i
        <5>1. p \div 2 # i
          BY <1>3, <2>2, <2>6, <4>1
        <5>2. key[h[p \div 2]] <= key[h[p]] /\ key[h[p]] <= key[h[q]]
          BY <2>1, <2>3, <3>1, <4>1, <4>3, <5>1
        <5> QED
          BY <1>9, <2>1, <2>2, <3>1, <4>1, <5>2 DEF p
      <4> QED
        BY <4>2, <4>3
    <3> QED
      BY <3>2, <3>3
  <2>7. CASE q \notin moving /\ p \notin moving
    <3>1. g[q] = h[q] /\ g[p] = h[p] /\ q # i /\ p # i
      BY <1>3, <1>6, <2>1, <2>7
    <3> QED
      BY <2>1, <3>1 DEF p
  <2> QED
    BY <2>4, <2>5, <2>6, <2>7
<1> QED
  BY <1>8, <1>10 DEF HeapOrdered, g

\* The entries but for the one at i differ from each other and from n.
Distinct(h, i, n) ==
    /\ \A p, q \in DOMAIN h \ {i} : h[p] = h[q] => p = q
    /\ \A p \in DOMAIN h \ {i} : h[p] # n

\* It keeps the entries but for the one at i, in whose place there is n.
LEMMA BubbleUpEntries ==
    ASSUME NEW N, NEW key \in [N -> Int], NEW h \in Seq(N), NEW i \in DOMAIN h, NEW n \in N,
           Distinct(h, i, n)
    PROVE  /\ IsInjective(BubbleUp(key, h, i, n))
           /\ Range(BubbleUp(key, h, i, n)) = {h[p] : p \in DOMAIN h \ {i}} \cup {n}
<1> DEFINE g == BubbleUp(key, h, i, n)
<1> HIDE DEF g
<1>1. PICK moving : moving = Moving(key, h, i, n)
  OBVIOUS
<1>2. PICK m : m = Min(moving)
  OBVIOUS
<1>3. /\ i \in moving /\ m \in moving
      /\ \A p \in moving : p \in DOMAIN h /\ m <= p /\ p <= i
      /\ \A p \in moving : p # m => p >= 2 /\ p \div 2 \in moving
  <2>1. InRow(key, h, i, n, moving, m)
    BY <1>1, <1>2, MovingRow
  <2> QED
    BY <2>1 DEF InRow
<1>4. g = [p \in DOMAIN h |-> IF p = m THEN n ELSE IF p \in moving THEN h[p \div 2] ELSE h[p]]
  BY <1>1, <1>2 DEF BubbleUp, Moving, g
<1>5. /\ Len(h) \in Nat /\ DOMAIN h = 1..Len(h)
  OBVIOUS
\* The position from which the entry at p came.
<1> DEFINE From(p) == IF p \in moving THEN p \div 2 ELSE p
<1>6. \A p \in DOMAIN h : p # m => /\ From(p) \in DOMAIN h \ {i} /\ g[p] = h[From(p)]
                                   /\ p \in moving => From(p) = p \div 2 /\ From(p) \in moving
                                   /\ p \notin moving => From(p) = p
  BY <1>3, <1>4, <1>5
<1>7. \A p, q \in DOMAIN h : p # m /\ q # m /\ From(p) = From(q) => p = q
  <2> SUFFICES ASSUME NEW p \in DOMAIN h, NEW q \in DOMAIN h, p # m, q # m, From(p) = From(q)
               PROVE  p = q
    OBVIOUS
  <2>1. (p \in moving <=> q \in moving)
    BY <1>6
  <2>2. CASE p \notin moving
    BY <2>1, <2>2
  <2>3. CASE p \in moving
    <3>1. p \div 2 = q \div 2 /\ q \in moving /\ p \in Nat /\ q \in Nat
      BY <1>5, <2>1, <2>3
    <3>2. p \in Branch(i) /\ q \in Branch(i)
      BY <1>1, <2>3, <3>1 DEF Moving, Sinking, Branch
    <3>3. \A a, b \in Branch(i) : a < b => a <= b \div 2
      BY <1>5, BranchInRow
    <3>4. p >= 2 /\ q >= 2
      BY <1>3, <2>3, <3>1
    <3>5. ~(p < q)
      BY <3>1, <3>2, <3>3, <3>4
    <3>6. ~(q < p)
      BY <3>1, <3>2, <3>3, <3>4
    <3> QED
      BY <3>1, <3>5, <3>6
  <2> QED
    BY <2>2, <2>3
<1>8. g[m] = n /\ m \in DOMAIN h /\ DOMAIN g = DOMAIN h
  BY <1>3, <1>4
<1>9. \A p \in DOMAIN h \ {i} : \E q \in DOMAIN h : q # m /\ From(q) = p
  <2> SUFFICES ASSUME NEW p \in DOMAIN h, p # i PROVE \E q \in DOMAIN h : q # m /\ From(q) = p
    OBVIOUS
  <2>1. CASE p \notin moving
    BY <1>3, <2>1
  <2>2. CASE p \in moving
    <3> DEFINE T == {q \in moving : q > p}
    <3>1. p \in Nat /\ i \in T
      BY <1>3, <1>5, <2>2
    <3>2. PICK q \in T : \A r \in T : q <= r
      <4>1. T \subseteq Nat
        BY <1>3, <1>5
      <4> HIDE DEF T
      <4> QED
        BY <3>1, <4>1, Smallest
    <3>3. q \in moving /\ q > p /\ q # m /\ q \in Nat
      BY <1>3, <1>5, <2>2, <3>1
    <3>4. q \div 2 \in moving /\ q \div 2 < q
      <4>1. q >= 2 /\ q \div 2 \in moving
        BY <1>3, <3>3
      <4> QED
        BY <3>3, <4>1
    <3>5. ~(q \div 2 > p)
      BY <3>2, <3>3, <3>4
    <3>6. p <= q \div 2
      <4>1. p \in Branch(i) /\ q \in Branch(i)
        BY <1>1, <2>2, <3>3 DEF Moving, Sinking, Branch
      <4> QED
        BY <1>5, <3>1, <3>3, <4>1, BranchInRow
    <3>7. q \div 2 = p
      BY <3>1, <3>3, <3>5, <3>6
    <3> QED
      BY <1>3, <3>3, <3>7
  <2> QED
    BY <2>1, <2>2
<1> HIDE DEF From
<1>10. IsInjective(g)
  <2>1. ASSUME NEW p \in DOMAIN h, NEW q \in DOMAIN h, g[p] = g[q] PROVE p = q
    BY <1>6, <1>7, <1>8, <2>1 DEF Distinct
  <2> QED
    BY <1>8, <2>1 DEF IsInjective
<1>11. Range(g) = {h[p] : p \in DOMAIN h \ {i}} \cup {n}
  <2>1. \A p \in DOMAIN h : g[p] \in {h[r] : r \in DOMAIN h \ {i}} \cup {n}
    BY <1>6, <1>8
  <2>2. \A p \in DOMAIN h \ {i} : h[p] \in Range(g)
    <3> SUFFICES ASSUME NEW p \in DOMAIN h \ {i} PROVE h[p] \in Range(g)
      OBVIOUS
    <3>1. PICK q \in DOMAIN h : q # m /\ From(q) = p
      BY <1>9
    <3>2. g[q] = h[p]
      BY <1>6, <3>1
    <3> QED
      BY <1>8, <3>2 DEF Range
  <2>3. n \in Range(g)
    BY <1>8 DEF Range
  <2>4. \A x \in Range(g) : x \in {h[r] : r \in DOMAIN h \ {i}} \cup {n}
    BY <1>8, <2>1 DEF Range
  <2> QED
    BY <2>2, <2>3, <2>4
<1> QED
  BY <1>10, <1>11 DEF g

\* Push adds an entry to a heap.
LEMMA PushLemma ==
    ASSUME NEW N, NEW key \in [N -> Int], NEW h \in Seq(N), NEW n \in N, n \notin Range(h),
           HeapOrdered(key, h), IsInjective(h)
    PROVE  /\ Push(key, h, n) \in Seq(N)
           /\ HeapOrdered(key, Push(key, h, n))
           /\ IsInjective(Push(key, h, n))
           /\ Range(Push(key, h, n)) = Range(h) \cup {n}
<1>1. PICK i : i = Len(h) + 1
  OBVIOUS
<1>2. PICK g : g = Append(h, n)
  OBVIOUS
<1>3. /\ g \in Seq(N) /\ Len(g) = i /\ DOMAIN g = 1..i /\ DOMAIN h = 1..Len(h)
      /\ Len(h) \in Nat /\ i \in DOMAIN g /\ DOMAIN g \ {i} = DOMAIN h
      /\ \A p \in DOMAIN h : g[p] = h[p] /\ h[p] \in N
  <2>1. Len(h) \in Nat /\ DOMAIN h = 1..Len(h) /\ \A p \in DOMAIN h : h[p] \in N
    OBVIOUS
  <2>2. g \in Seq(N) /\ Len(g) = i /\ \A p \in 1..Len(h) : g[p] = h[p]
    BY <1>1, <1>2, AppendProperties
  <2>3. DOMAIN g = 1..i
    BY <2>2
  <2>4. i \in 1..i /\ (1..i) \ {i} = 1..Len(h)
    BY <1>1, <2>1
  <2> QED
    BY <2>1, <2>2, <2>3, <2>4
<1>4. Bubbling(key, g, i, n)
  <2>1. ASSUME NEW q \in 2..i, q # i, q \div 2 # i PROVE key[g[q \div 2]] <= key[g[q]]
    <3>1. q \in 2..Len(h) /\ q \in DOMAIN h /\ q \div 2 \in DOMAIN h
      BY <1>1, <1>3, <2>1
    <3> QED
      BY <1>3, <3>1 DEF HeapOrdered
  <2>2. \A q \in 2..i : q \div 2 # i
    BY <1>1, <1>3
  <2> QED
    BY <1>3, <2>1, <2>2 DEF Bubbling
<1>5. Distinct(g, i, n)
  BY <1>3 DEF IsInjective, Range, Distinct
<1>6. {g[p] : p \in DOMAIN g \ {i}} = Range(h)
  BY <1>3 DEF Range
<1>7. Push(key, h, n) = BubbleUp(key, g, i, n)
  BY <1>1, <1>2 DEF Push
<1>8. BubbleUp(key, g, i, n) \in Seq(N) /\ HeapOrdered(key, BubbleUp(key, g, i, n))
  BY <1>3, <1>4, BubbleUpHeap
<1>9. IsInjective(BubbleUp(key, g, i, n)) /\ Range(BubbleUp(key, g, i, n)) = Range(h) \cup {n}
  <2>1. /\ IsInjective(BubbleUp(key, g, i, n))
        /\ Range(BubbleUp(key, g, i, n)) = {g[p] : p \in DOMAIN g \ {i}} \cup {n}
    <3>1. g \in Seq(N) /\ i \in DOMAIN g
      BY <1>3
    <3> QED
      BY <1>5, <3>1, BubbleUpEntries
  <2> QED
    BY <1>6, <2>1
<1> QED
  BY <1>7, <1>8, <1>9

\* h is a heap that holds each member of S once and nothing else.
HeapOf(N, key, h, S) == h \in Seq(N) /\ HeapOrdered(key, h) /\ IsInjective(h) /\ Range(h) = S

\* Only the key of n has changed, and not become larger.
Lowered(N, key, old, n) == (\A p \in N : p # n => key[p] = old[p]) /\ key[n] <= old[n]

\* Modify makes a heap again after the key of one entry has become smaller.
LEMMA ModifyLemma ==
    ASSUME NEW N, NEW key \in [N -> Int], NEW old \in [N -> Int], NEW h \in Seq(N),
           NEW n \in N, n \in Range(h), HeapOrdered(old, h), IsInjective(h),
           Lowered(N, key, old, n)
    PROVE  HeapOf(N, key, Modify(key, h, n), Range(h))
<1>1. PICK i : i = CHOOSE j \in DOMAIN h : h[j] = n
  OBVIOUS
<1>2. i \in DOMAIN h /\ h[i] = n
  BY <1>1 DEF Range
<1>3. /\ DOMAIN h = 1..Len(h) /\ Len(h) \in Nat /\ i \in Nat
      /\ \A p \in DOMAIN h : h[p] \in N
  BY <1>2
<1>4. \A p \in DOMAIN h : p # i => h[p] # n /\ key[h[p]] = old[h[p]]
  BY <1>2, <1>3 DEF IsInjective, Lowered
<1>5. \A q \in 2..Len(h) : old[h[q \div 2]] <= old[h[q]] /\ q \in DOMAIN h /\ q \div 2 \in DOMAIN h
  BY <1>3 DEF HeapOrdered
<1>6. Bubbling(key, h, i, n)
  <2>1. ASSUME NEW q \in 2..Len(h), q # i, q \div 2 # i PROVE key[h[q \div 2]] <= key[h[q]]
    BY <1>4, <1>5, <2>1
  <2>2. ASSUME NEW q \in 2..Len(h), q \div 2 = i
        PROVE  key[n] <= key[h[q]] /\ (i >= 2 => key[h[i \div 2]] <= key[h[q]])
    <3>1. q # i /\ q \in DOMAIN h /\ old[n] <= old[h[q]] /\ key[h[q]] = old[h[q]]
      <4>1. q # i
        BY <1>3, <2>2
      <4> QED
        BY <1>2, <1>4, <1>5, <2>2, <4>1
    <3>2. old[n] \in Int /\ key[n] \in Int /\ old[h[q]] \in Int /\ key[n] <= old[n]
      BY <1>3, <3>1 DEF Lowered
    <3>3. key[n] <= key[h[q]]
      BY <3>1, <3>2
    <3>4. ASSUME i >= 2 PROVE key[h[i \div 2]] <= key[h[q]]
      <4>1. i \in 2..Len(h) /\ i \div 2 # i
        BY <1>2, <1>3, <3>4
      <4>2. old[h[i \div 2]] <= old[n] /\ i \div 2 \in DOMAIN h
        BY <1>2, <1>5, <4>1
      <4>3. key[h[i \div 2]] = old[h[i \div 2]] /\ old[h[i \div 2]] \in Int
        BY <1>3, <1>4, <4>1, <4>2
      <4> QED
        BY <3>1, <3>2, <4>2, <4>3
    <3> QED
      BY <3>3, <3>4
  <2> QED
    BY <2>1, <2>2 DEF Bubbling
<1>7. Distinct(h, i, n)
  BY <1>4 DEF IsInjective, Distinct
<1>8. {h[p] : p \in DOMAIN h \ {i}} \cup {n} = Range(h)
  BY <1>2 DEF Range
<1>9. Modify(key, h, n) = BubbleUp(key, h, i, n)
  BY <1>1 DEF Modify
<1>10. BubbleUp(key, h, i, n) \in Seq(N) /\ HeapOrdered(key, BubbleUp(key, h, i, n))
  BY <1>2, <1>6, BubbleUpHeap
<1>11. IsInjective(BubbleUp(key, h, i, n)) /\ Range(BubbleUp(key, h, i, n)) = Range(h)
  <2>1. /\ IsInjective(BubbleUp(key, h, i, n))
        /\ Range(BubbleUp(key, h, i, n)) = {h[p] : p \in DOMAIN h \ {i}} \cup {n}
    BY <1>2, <1>7, BubbleUpEntries
  <2> QED
    BY <1>8, <2>1
<1> QED
  BY <1>9, <1>10, <1>11 DEF HeapOf

\* Every position of a branch but its last has a child in it.
LEMMA BranchNext ==
    ASSUME NEW i \in Nat \ {0}, NEW p \in Branch(i), p # i
    PROVE  \E q \in Branch(i) : q >= 2 /\ q \div 2 = p
<1> DEFINE T == {q \in Branch(i) : q > p}
<1>1. /\ i \in Branch(i) /\ \A a \in Branch(i) : a \in Nat /\ 1 <= a /\ a <= i
      /\ \A a \in Branch(i) : a >= 2 => a \div 2 \in Branch(i)
      /\ \A a, b \in Branch(i) : a < b => a <= b \div 2
  BY BranchClosed, BranchInRow
<1>2. PICK q \in T : \A r \in T : q <= r
  <2>1. T \subseteq Nat /\ i \in T
    BY <1>1
  <2> HIDE DEF T
  <2> QED
    BY <2>1, Smallest
<1>3. q \in Branch(i) /\ q \in Nat /\ p \in Nat /\ q > p /\ p >= 1 /\ q >= 2
  BY <1>1
<1>4. q \div 2 \in Branch(i) /\ q \div 2 < q /\ p <= q \div 2
  BY <1>1, <1>3
<1>5. ~(q \div 2 > p)
  BY <1>2, <1>3, <1>4
<1>6. q \div 2 = p
  BY <1>3, <1>4, <1>5
<1> QED
  BY <1>3, <1>6

\* A branch from the top to a leaf, by way of smallest children.
HoleRow(key, h, hole, leaf) ==
    /\ 1 \in hole /\ leaf \in hole
    /\ \A p \in hole : p \in DOMAIN h /\ p <= leaf
    /\ \A p \in hole : p # 1 => p \div 2 \in hole /\ p = Child(key, h, p \div 2)
    /\ \A p \in hole : p # leaf => Child(key, h, p) \in hole
    /\ 2 * leaf > Len(h)

\* The hole is one.
LEMMA HoleLemma ==
    ASSUME NEW N, NEW key \in [N -> Int], NEW h \in Seq(N), h # <<>>,
           NEW hole, hole = Hole(key, h), NEW leaf, leaf = Max(hole)
    PROVE  HoleRow(key, h, hole, leaf)
<1>1. /\ Len(h) \in Nat \ {0} /\ DOMAIN h = 1..Len(h)
  OBVIOUS
<1>2. \A p : p \in hole <=> p \in DOMAIN h /\ \A c \in Branch(p) : c # 1 => c = Child(key, h, c \div 2)
  BY DEF Hole, Branch
<1>3. 1 \in hole
  <2>1. Branch(1) = {1}
    BY AboveTop DEF Branch
  <2> QED
    BY <1>1, <1>2, <2>1
<1>4. \A p \in DOMAIN h : p # 1 => /\ p \div 2 \in DOMAIN h
                                   /\ Branch(p) = {p} \cup Branch(p \div 2)
  <2> SUFFICES ASSUME NEW p \in DOMAIN h, p # 1
               PROVE  p \div 2 \in DOMAIN h /\ Branch(p) = {p} \cup Branch(p \div 2)
    OBVIOUS
  <2>1. p \in Nat /\ p >= 2 /\ p \div 2 \in DOMAIN h
    BY <1>1
  <2> QED
    BY <2>1, AboveBranch DEF Branch
<1>5. ASSUME NEW p \in hole, p # 1 PROVE p \div 2 \in hole /\ p = Child(key, h, p \div 2)
  BY <1>2, <1>4, <1>5 DEF Branch
<1>6. ASSUME NEW p \in hole, 2 * p <= Len(h) PROVE Child(key, h, p) \in hole
  <2>1. p \in Nat /\ p >= 1 /\ p \in DOMAIN h
    BY <1>1, <1>2
  <2>2. PICK c : c = Child(key, h, p)
    OBVIOUS
  <2>3. c \in {2 * p, 2 * p + 1} /\ c <= Len(h)
    BY <1>1, <1>6, <2>1, <2>2 DEF Child
  <2>4. c \in DOMAIN h /\ c # 1 /\ c \div 2 = p
    BY <1>1, <2>1, <2>3
  <2>5. Branch(c) = {c} \cup Branch(p)
    BY <1>4, <2>4
  <2>6. c \in hole
    BY <1>2, <2>2, <2>4, <2>5
  <2> QED
    BY <2>2, <2>6
<1>7. leaf \in hole /\ \A p \in hole : p <= leaf
  <2>1. hole \subseteq Nat /\ \A p \in hole : p <= Len(h)
    BY <1>1, <1>2
  <2> QED
    BY <1>1, <1>3, <2>1, Largest
<1>8. 2 * leaf > Len(h)
  <2> SUFFICES ASSUME ~(2 * leaf > Len(h)) PROVE FALSE
    OBVIOUS
  <2>1. leaf \in Nat /\ leaf >= 1
    BY <1>1, <1>2, <1>7
  <2>2. Child(key, h, leaf) \in hole
    BY <1>1, <1>6, <1>7, <2>1
  <2>3. Child(key, h, leaf) \in {2 * leaf, 2 * leaf + 1}
    BY DEF Child
  <2> QED
    BY <1>7, <2>1, <2>2, <2>3
<1>9. Branch(leaf) \subseteq hole
  <2>1. CASE leaf = 1
    BY <1>3, <2>1, AboveTop DEF Branch
  <2>2. CASE leaf # 1
    <3>1. leaf \in Nat /\ leaf >= 2 /\ \A b \in hole : b \in Nat
      BY <1>1, <1>2, <1>7, <2>2
    <3>2. leaf \div 2 \in hole /\ \A b \in hole : b >= 2 => b \div 2 \in hole
      BY <1>5, <1>7, <2>2
    <3>3. Above(leaf) \subseteq hole
      BY <3>1, <3>2, AboveLeast
    <3> QED
      BY <1>7, <3>3 DEF Branch
  <2> QED
    BY <2>1, <2>2
<1>10. hole \subseteq Branch(leaf)
  <2> DEFINE T == hole \ Branch(leaf)
  <2>1. SUFFICES ASSUME T # {} PROVE FALSE
    OBVIOUS
  <2>2. PICK p \in T : \A q \in T : p <= q
    <3>1. T \subseteq Nat
      BY <1>1, <1>2
    <3> HIDE DEF T
    <3> QED
      BY <2>1, <3>1, Smallest
  <2>3. leaf \in Nat \ {0} /\ p \in hole /\ p \in Nat /\ p >= 1 /\ p <= leaf /\ p \notin Branch(leaf)
    BY <1>1, <1>2, <1>7
  <2>4. p # 1
    BY <2>3, BranchClosed
  <2>5. p \div 2 \in hole /\ p = Child(key, h, p \div 2) /\ p \div 2 < p
    BY <1>5, <2>3, <2>4
  <2>6. p \div 2 \in Branch(leaf) /\ p \div 2 # leaf
    BY <2>2, <2>3, <2>5
  <2>7. PICK q \in Branch(leaf) : q >= 2 /\ q \div 2 = p \div 2
    BY <2>3, <2>6, BranchNext
  <2>8. q = Child(key, h, p \div 2)
    BY <1>5, <1>9, <2>7
  <2> QED
    BY <2>3, <2>5, <2>7, <2>8
<1>11. ASSUME NEW p \in hole, p # leaf PROVE Child(key, h, p) \in hole
  <2>1. leaf \in Nat \ {0}
    BY <1>1, <1>2, <1>7
  <2>2. PICK q \in Branch(leaf) : q >= 2 /\ q \div 2 = p
    BY <1>10, <1>11, <2>1, BranchNext
  <2>3. q \in hole /\ q = Child(key, h, p)
    BY <1>5, <1>9, <2>2
  <2> QED
    BY <2>3
<1>12. \A p \in hole : p \in DOMAIN h
  BY <1>2
<1> QED
  BY <1>3, <1>5, <1>7, <1>8, <1>11, <1>12 DEF HoleRow

\* The child that takes its parent's place is the smaller one.
LEMMA ChildSmallest ==
    ASSUME NEW N, NEW key \in [N -> Int], NEW h \in Seq(N), NEW q \in 2..Len(h)
    PROVE  key[h[Child(key, h, q \div 2)]] <= key[h[q]]
<1>1. PICK p : p = q \div 2
  OBVIOUS
<1>2. Len(h) \in Nat /\ q \in Nat /\ p \in Nat /\ q \in {2 * p, 2 * p + 1} /\ q <= Len(h) /\ p >= 1
  BY <1>1
<1>3. \A r \in 1..Len(h) : key[h[r]] \in Int
  OBVIOUS
<1>4. 2 * p \in 1..Len(h)
  BY <1>2
<1>5. CASE 2 * p + 1 <= Len(h)
  <2>1. 2 * p + 1 \in 1..Len(h)
    BY <1>2, <1>5
  <2>2. key[h[2 * p]] \in Int /\ key[h[2 * p + 1]] \in Int
    BY <1>3, <1>4, <2>1
  <2>3. key[h[Child(key, h, p)]] <= key[h[2 * p]] /\ key[h[Child(key, h, p)]] <= key[h[2 * p + 1]]
    <3>1. CASE key[h[2 * p]] > key[h[2 * p + 1]]
      <4>1. Child(key, h, p) = 2 * p + 1
        BY <1>5, <3>1 DEF Child
      <4> QED
        BY <2>2, <3>1, <4>1
    <3>2. CASE ~(key[h[2 * p]] > key[h[2 * p + 1]])
      <4>1. Child(key, h, p) = 2 * p
        BY <3>2 DEF Child
      <4> QED
        BY <2>2, <3>2, <4>1
    <3> QED
      BY <3>1, <3>2
  <2> QED
    BY <1>1, <1>2, <2>3
<1>6. CASE ~(2 * p + 1 <= Len(h))
  <2>1. q = 2 * p
    BY <1>2, <1>6
  <2>2. Child(key, h, p) = 2 * p
    BY <1>6 DEF Child
  <2>3. key[h[q]] \in Int
    BY <1>3, <1>4, <2>1
  <2> QED
    BY <1>1, <2>1, <2>2, <2>3
<1> QED
  BY <1>5, <1>6

\* TrickleDown replaces the top of a heap.
LEMMA TrickleDownLemma ==
    ASSUME NEW N, NEW key \in [N -> Int], NEW h \in Seq(N), h # <<>>, NEW n \in N,
           n \notin Range(h), HeapOrdered(key, h), IsInjective(h)
    PROVE  /\ TrickleDown(key, h, n) \in Seq(N)
           /\ HeapOrdered(key, TrickleDown(key, h, n))
           /\ IsInjective(TrickleDown(key, h, n))
           /\ Range(TrickleDown(key, h, n)) = (Range(h) \ {h[1]}) \cup {n}
<1>1. PICK hole : hole = Hole(key, h)
  OBVIOUS
<1>2. PICK leaf : leaf = Max(hole)
  OBVIOUS
<1>3. /\ 1 \in hole /\ leaf \in hole
      /\ \A p \in hole : p \in DOMAIN h /\ p <= leaf
      /\ \A p \in hole : p # 1 => p \div 2 \in hole /\ p = Child(key, h, p \div 2)
      /\ \A p \in hole : p # leaf => Child(key, h, p) \in hole
      /\ 2 * leaf > Len(h)
  <2>1. HoleRow(key, h, hole, leaf)
    BY <1>1, <1>2, HoleLemma
  <2> QED
    BY <2>1 DEF HoleRow
<1> DEFINE From(p) == IF p \in hole \ {leaf} THEN Child(key, h, p) ELSE p
<1>4. PICK raised : raised = [p \in DOMAIN h |-> IF p \in hole \ {leaf} THEN h[Child(key, h, p)] ELSE h[p]]
  OBVIOUS
<1>5. /\ Len(h) \in Nat \ {0} /\ DOMAIN h = 1..Len(h)
      /\ \A p \in DOMAIN h : h[p] \in N /\ key[h[p]] \in Int
  OBVIOUS
<1>6. \A p \in DOMAIN h : From(p) \in DOMAIN h /\ raised[p] = h[From(p)]
  BY <1>3, <1>4
<1>7. \A p \in hole : p # leaf => Child(key, h, p) # 1 /\ Child(key, h, p) \div 2 = p
  <2> SUFFICES ASSUME NEW p \in hole, p # leaf
               PROVE  Child(key, h, p) # 1 /\ Child(key, h, p) \div 2 = p
    OBVIOUS
  <2>1. p \in Nat /\ p >= 1
    BY <1>3, <1>5
  <2>2. Child(key, h, p) \in {2 * p, 2 * p + 1}
    BY DEF Child
  <2> QED
    BY <2>1, <2>2
<1>8. \A p \in DOMAIN h : /\ p \in hole /\ p # leaf => /\ From(p) = Child(key, h, p)
                                                      /\ From(p) \in hole /\ From(p) # 1
                                                      /\ From(p) \div 2 = p
                          /\ p \notin hole \/ p = leaf => From(p) = p
  BY <1>3, <1>7
<1> HIDE DEF From
<1>9. raised \in Seq(N) /\ DOMAIN raised = DOMAIN h /\ Len(raised) = Len(h) /\ leaf \in DOMAIN h
  <2>1. raised \in [1..Len(h) -> N]
    BY <1>4, <1>5, <1>6
  <2>2. raised \in Seq(N)
    BY <1>5, <2>1, SeqDef
  <2>3. DOMAIN raised = 1..Len(h)
    BY <2>1
  <2> QED
    BY <1>3, <1>5, <2>2, <2>3, LenProperties
<1>10. Bubbling(key, raised, leaf, n)
  <2>1. ASSUME NEW q \in 2..Len(h), q # leaf, q \div 2 # leaf
        PROVE  key[raised[q \div 2]] <= key[raised[q]]
    <3>1. PICK p : p = q \div 2
      OBVIOUS
    <3>2. q \in Nat /\ q >= 2 /\ p \in Nat /\ q \in DOMAIN h /\ p \in DOMAIN h /\ p # leaf
      BY <1>5, <2>1, <3>1
    <3>3. key[h[p]] <= key[h[q]] /\ key[h[Child(key, h, p)]] <= key[h[q]]
      BY <3>1, ChildSmallest DEF HeapOrdered
    <3>4. key[h[q]] <= key[raised[q]]
      <4>1. CASE q \in hole
        <5>1. From(q) \in DOMAIN h /\ From(q) \div 2 = q /\ raised[q] = h[From(q)] /\ From(q) # 1
          BY <1>6, <1>8, <2>1, <3>2, <4>1
        <5>2. From(q) \in 2..Len(h)
          BY <1>5, <5>1
        <5> QED
          BY <5>1, <5>2 DEF HeapOrdered
      <4>2. CASE q \notin hole
        BY <1>5, <1>6, <1>8, <3>2, <4>2
      <4> QED
        BY <4>1, <4>2
    <3>5. key[raised[p]] <= key[h[q]]
      <4>1. CASE p \in hole
        BY <1>6, <1>8, <3>2, <3>3, <4>1
      <4>2. CASE p \notin hole
        BY <1>6, <1>8, <3>2, <3>3, <4>2
      <4> QED
        BY <4>1, <4>2
    <3>6. key[raised[p]] \in Int /\ key[h[q]] \in Int /\ key[raised[q]] \in Int
      BY <1>5, <1>6, <3>2
    <3> QED
      BY <3>1, <3>4, <3>5, <3>6
  <2>2. \A q \in 2..Len(h) : q \div 2 # leaf
    BY <1>3, <1>5
  <2> QED
    BY <1>9, <2>1, <2>2 DEF Bubbling
<1>11. {raised[p] : p \in DOMAIN raised \ {leaf}} = Range(h) \ {h[1]}
  <2>1. ASSUME NEW p \in DOMAIN h \ {leaf} PROVE raised[p] \in Range(h) \ {h[1]}
    <3>1. From(p) \in DOMAIN h /\ From(p) # 1 /\ raised[p] = h[From(p)]
      BY <1>3, <1>6, <1>8
    <3> QED
      BY <1>3, <3>1 DEF Range, IsInjective
  <2>2. ASSUME NEW x \in Range(h) \ {h[1]} PROVE \E p \in DOMAIN h \ {leaf} : raised[p] = x
    <3>1. PICK r \in DOMAIN h : h[r] = x /\ r # 1
      BY DEF Range
    <3>2. CASE r \in hole
      <4>1. r \div 2 \in hole /\ r = Child(key, h, r \div 2) /\ r <= leaf /\ r \div 2 < r
        BY <1>3, <1>5, <3>1, <3>2
      <4>2. r \div 2 # leaf /\ r \div 2 \in DOMAIN h
        BY <1>3, <1>5, <4>1
      <4> QED
        BY <1>6, <1>8, <3>1, <4>1, <4>2
    <3>3. CASE r \notin hole
      BY <1>3, <1>6, <1>8, <3>1, <3>3
    <3> QED
      BY <3>2, <3>3
  <2> QED
    BY <1>9, <2>1, <2>2
<1>12. Distinct(raised, leaf, n)
  <2>1. ASSUME NEW p \in DOMAIN h \ {leaf}, NEW q \in DOMAIN h \ {leaf}, raised[p] = raised[q]
        PROVE  p = q
    <3>1. From(p) = From(q)
      BY <1>6, <2>1 DEF IsInjective
    <3>2. CASE p \in hole /\ q \in hole
      BY <1>8, <3>1, <3>2
    <3>3. CASE ~(p \in hole /\ q \in hole)
      BY <1>8, <3>1, <3>3
    <3> QED
      BY <3>2, <3>3
  <2>2. ASSUME NEW p \in DOMAIN h \ {leaf} PROVE raised[p] # n
    BY <1>6 DEF Range
  <2> QED
    BY <1>9, <2>1, <2>2 DEF Distinct
<1>13. TrickleDown(key, h, n) = BubbleUp(key, raised, leaf, n)
  BY <1>1, <1>2, <1>4 DEF TrickleDown
<1>14. /\ BubbleUp(key, raised, leaf, n) \in Seq(N)
       /\ HeapOrdered(key, BubbleUp(key, raised, leaf, n))
  BY <1>9, <1>10, BubbleUpHeap
<1>15. /\ IsInjective(BubbleUp(key, raised, leaf, n))
       /\ Range(BubbleUp(key, raised, leaf, n)) = {raised[p] : p \in DOMAIN raised \ {leaf}} \cup {n}
  <2>1. raised \in Seq(N) /\ leaf \in DOMAIN raised
    BY <1>9
  <2> QED
    BY <1>12, <2>1, BubbleUpEntries
<1> QED
  BY <1>11, <1>13, <1>14, <1>15

\* Pop takes the top from a heap.
LEMMA PopLemma ==
    ASSUME NEW N, NEW key \in [N -> Int], NEW h \in Seq(N), h # <<>>,
           HeapOrdered(key, h), IsInjective(h)
    PROVE  HeapOf(N, key, Pop(key, h), Range(h) \ {h[1]})
<1>1. PICK rest : rest = SubSeq(h, 1, Len(h) - 1)
  OBVIOUS
<1>2. PICK len : len = Len(h)
  OBVIOUS
<1>3. PICK n : n = h[len]
  OBVIOUS
<1>4. len \in Nat \ {0} /\ DOMAIN h = 1..len /\ \A p \in 1..len : h[p] \in N
  BY <1>2
<1>5. /\ rest \in Seq(N) /\ Len(rest) = len - 1
      /\ \A p \in 1..(len - 1) : rest[p] = h[p]
  BY <1>1, <1>2, <1>4
<1>6. DOMAIN rest = 1..(len - 1) /\ n \in N
  BY <1>3, <1>4, <1>5
<1>7. /\ \A p \in 1..(len - 1) : p \in 1..len /\ p # len
      /\ \A p \in 1..len : p # len => p \in 1..(len - 1)
      /\ len \in 1..len
  BY <1>4
<1>8. Range(rest) = Range(h) \ {n} /\ n \in Range(h) /\ n \notin Range(rest)
  <2>1. ASSUME NEW x \in Range(rest) PROVE x \in Range(h) /\ x # n
    <3>1. PICK p \in 1..(len - 1) : x = h[p]
      BY <1>5, <1>6 DEF Range
    <3> QED
      BY <1>3, <1>4, <1>7, <3>1 DEF Range, IsInjective
  <2>2. ASSUME NEW x \in Range(h) \ {n} PROVE x \in Range(rest)
    <3>1. PICK p \in 1..len : x = h[p]
      BY <1>4 DEF Range
    <3> QED
      BY <1>3, <1>5, <1>6, <1>7, <3>1 DEF Range
  <2>3. n \in Range(h)
    BY <1>3, <1>4, <1>7 DEF Range
  <2> QED
    BY <2>1, <2>2, <2>3
<1>9. CASE rest = <<>>
  <2>1. len - 1 = 0
    BY <1>5, <1>9
  <2>2. len = 1
    BY <1>4, <2>1
  <2>3. Range(h) \ {h[1]} = {}
    BY <1>4, <2>2 DEF Range
  <2>4. Pop(key, h) = <<>>
    BY <1>1, <1>9 DEF Pop
  <2>5. HeapOrdered(key, <<>>) /\ IsInjective(<<>>) /\ Range(<<>>) = {} /\ <<>> \in Seq(N)
    BY DEF HeapOrdered, IsInjective, Range
  <2> QED
    BY <2>3, <2>4, <2>5 DEF HeapOf
<1>10. CASE rest # <<>>
  <2>1. Pop(key, h) = TrickleDown(key, rest, n)
    BY <1>1, <1>2, <1>3, <1>10 DEF Pop
  <2>2. HeapOrdered(key, rest)
    <3>1. ASSUME NEW q \in 2..(len - 1) PROVE key[rest[q \div 2]] <= key[rest[q]]
      <4>1. q \in 2..len /\ q \in 1..(len - 1) /\ q \div 2 \in 1..(len - 1)
        BY <1>4
      <4> QED
        BY <1>2, <1>5, <4>1 DEF HeapOrdered
    <3> QED
      BY <1>5, <3>1 DEF HeapOrdered
  <2>3. IsInjective(rest)
    BY <1>4, <1>5, <1>6, <1>7 DEF IsInjective
  <2>4. /\ TrickleDown(key, rest, n) \in Seq(N)
        /\ HeapOrdered(key, TrickleDown(key, rest, n))
        /\ IsInjective(TrickleDown(key, rest, n))
        /\ Range(TrickleDown(key, rest, n)) = (Range(rest) \ {rest[1]}) \cup {n}
    BY <1>5, <1>6, <1>8, <1>10, <2>2, <2>3, TrickleDownLemma
  <2>5. rest[1] = h[1] /\ h[1] # n
    <3>1. Len(rest) # 0
      BY <1>5, <1>10
    <3>2. len # 1 /\ 1 \in 1..(len - 1) /\ 1 \in 1..len
      BY <1>4, <1>5, <3>1
    <3> QED
      BY <1>3, <1>4, <1>5, <1>7, <3>2 DEF IsInjective
  <2> QED
    BY <1>8, <2>1, <2>4, <2>5 DEF HeapOf
<1> QED
  BY <1>9, <1>10

----------------------------------------------------------------------------
(* The inductive invariant *)

NodeType == [id : Poly, state : 0..3, pos : Int, pidx : Nat, cost : Nat, total : Nat,
             flag : {"open", "closed"}]
SearchType == [nodes : Seq(NodeType), open : Seq(Nat), best : Nat, bestCost : Nat,
               short : BOOLEAN]

\* The pool, of which node 1 is the start, and the parents, which are in it.
PoolInv(pr, s) ==
    /\ s \in SearchType
    /\ Len(s.nodes) \in 1..pr.maxNodes
    /\ s.best \in DOMAIN s.nodes
    /\ \A i \in DOMAIN s.nodes : s.nodes[i].pidx \in 0..Len(s.nodes)
    /\ Start = End => Len(s.nodes) = 1
    /\ s.nodes[1].id = Start /\ s.nodes[1].pos = StartPos
    /\ s.nodes[1].pidx = 0 /\ s.nodes[1].cost = 0
    /\ s.nodes[1].total = HScale * Dist(StartPos, EndPos)

\* The open list.
OpenNodes(nodes) == {i \in DOMAIN nodes : nodes[i].flag = "open"}
OpenInv(s) ==
    /\ s.open \in Seq(DOMAIN s.nodes)
    /\ HeapOrdered(Totals(s.nodes), s.open)
    /\ IsInjective(s.open)
    /\ Range(s.open) = OpenNodes(s.nodes)

\* A node costs what the way through its parent costs, or more since the parent
\* has become cheaper, and its total is its cost and its heuristic.
Reached(pr, s, i) ==
    LET node == s.nodes[i]
        parent == s.nodes[node.pidx] IN
    /\ node.total = node.cost + Heuristic(node.id, node.pos)
    /\ node.pidx # 0
    /\ \E l \in Range(Links(pr.graph, parent.id)) : l.to = node.id /\ l.side = node.state
    /\ node.id \in Passes
    /\ node.cost >= parent.cost + Cost(parent.pos, node.pos, parent.id)
TreeInv(pr, s) == \A i \in DOMAIN s.nodes \ {1} : Reached(pr, s, i)

\* No parents go round in a circle: wherever one begins, one comes to node 1.
ParentClosed(s, C) == \A i \in C : s.nodes[i].pidx # 0 => s.nodes[i].pidx \in C
Rooted(s) == \A C \in SUBSET DOMAIN s.nodes : C # {} /\ ParentClosed(s, C) => 1 \in C

\* The best node so far.
NearInv(s) ==
    /\ s.bestCost = Nearness(s, s.best)
    /\ \A i \in DOMAIN s.nodes : s.bestCost <= Nearness(s, i)

Sound(pr, s) == PoolInv(pr, s) /\ OpenInv(s) /\ TreeInv(pr, s) /\ Rooted(s) /\ NearInv(s)

\* Where the links of a closed node lead, there is a node, while nodes last.
Leads(s, id) == \E j \in DOMAIN s.nodes : s.nodes[j].id = id
Expanded(pr, s) ==
    ~s.short => \A i \in DOMAIN s.nodes :
        s.nodes[i].flag = "closed" /\ s.nodes[i].id # End =>
            \A l \in Range(Links(pr.graph, s.nodes[i].id)) : l.to \in Passes => Leads(s, l.to)

Idle == [nodes |-> <<>>, open |-> <<>>, best |-> 0, bestCost |-> 0, short |-> FALSE]

\* When a search has an end, and how.
EndInv ==
    /\ err \in {"none", "nil"} => left = NoCall
    /\ \A i \in DOMAIN search.nodes :
          search.nodes[i].flag = "closed" /\ search.nodes[i].id = End =>
              err = "nil" /\ search.nodes[search.best].id = End
    /\ err = "nil" => search.nodes[search.best].id = End \/ search.open = <<>>

SearchInv ==
    /\ problem \in [graph : Graphs, maxNodes : PoolSizes]
    /\ err \in {"none", "busy", "nil", "nodes"}
    /\ left \in Nat \cup {NoCall}
    /\ rounds \in Nat
    /\ err = "none" => search = Idle
    /\ err # "none" => Sound(problem, search) /\ Expanded(problem, search)
    /\ EndInv

ProblemType == [graph : Graphs, maxNodes : PoolSizes]

\* From s to t, nodes are kept, do not get dearer, and are only opened again
\* at smaller totals.
Grown(s, t) ==
    /\ Len(s.nodes) <= Len(t.nodes)
    /\ \A i \in DOMAIN s.nodes :
          LET old == s.nodes[i]
              new == t.nodes[i] IN
          /\ i \in DOMAIN t.nodes /\ new.id = old.id
          /\ new.total <= old.total
          /\ old.flag = "closed" /\ new.flag = "open" => new.total < old.total
    /\ s.short => t.short

\* t is s after link l of node b has led to node i, at a smaller cost.
Follow(pr, s, b, l, i, t) ==
    /\ t \in SearchType /\ Len(t.nodes) <= pr.maxNodes /\ Len(s.nodes) <= Len(t.nodes)
    /\ DOMAIN t.nodes = DOMAIN s.nodes \cup {i} /\ i # 1
    /\ \A j \in DOMAIN s.nodes : j # i => t.nodes[j] = s.nodes[j]
    /\ t.nodes[i].id = l.to /\ t.nodes[i].state = l.side
    /\ t.nodes[i].pidx = b /\ t.nodes[i].flag = "open" /\ l.to \in Passes
    /\ LET from == s.nodes[b]
           new == t.nodes[i] IN
       /\ new.cost >= from.cost + Cost(from.pos, new.pos, from.id)
       /\ new.total = new.cost + Heuristic(new.id, new.pos)
    /\ i \in DOMAIN s.nodes =>
          /\ t.nodes[i].id = s.nodes[i].id /\ t.nodes[i].pos = s.nodes[i].pos
          /\ t.nodes[i].total < s.nodes[i].total /\ t.nodes[i].cost < s.nodes[i].cost
    /\ OpenInv(t)
    /\ t.short = s.short
    /\ \/ t.best = i /\ t.bestCost = Nearness(t, i) /\ t.bestCost < s.bestCost
       \/ t.best = s.best /\ t.bestCost = s.bestCost /\ s.bestCost <= Nearness(t, i)

----------------------------------------------------------------------------
(* One link *)

\* Products of natural numbers are natural numbers.
LEMMA NatProduct == \A x, y \in Nat : x * y \in Nat /\ 0 * y = 0
  OBVIOUS

\* Distances, costs and heuristics are natural numbers.
LEMMA Measures ==
    ASSUME NEW x \in Int, NEW y \in Int, NEW p \in Poly
    PROVE  /\ Dist(x, y) \in Nat
           /\ Cost(x, y, p) \in Nat /\ Cost(x, x, p) = 0
           /\ Heuristic(p, x) \in Nat
<1>1. Dist(x, y) \in Nat /\ Dist(x, x) = 0
  BY DEF Dist
<1>2. Area[p] \in Nat
  BY SearchAssumption
<1>3. Cost(x, y, p) \in Nat /\ Cost(x, x, p) = 0
  BY <1>1, <1>2, NatProduct DEF Cost
<1>4. Dist(x, EndPos) \in Nat /\ HScale \in Nat
  BY SearchAssumption DEF Dist
<1>5. Heuristic(p, x) \in Nat
  BY <1>4, NatProduct DEF Heuristic
<1> QED
  BY <1>1, <1>3, <1>5

\* FindNode finds the node of that name, if there is one.
LEMMA FindNodeLemma ==
    ASSUME NEW nodes \in Seq(NodeType), NEW id, NEW state
    PROVE  /\ FindNode(nodes, id, state) = 0
                \/ FindNode(nodes, id, state) \in DOMAIN nodes
           /\ FindNode(nodes, id, state) \in DOMAIN nodes =>
                /\ nodes[FindNode(nodes, id, state)].id = id
                /\ nodes[FindNode(nodes, id, state)].state = state
                /\ FindNode(nodes, id, state) # 0
<1>1. PICK found : found = {i \in DOMAIN nodes : nodes[i].id = id /\ nodes[i].state = state}
  OBVIOUS
<1>2. found \subseteq Nat /\ 0 \notin found
  BY <1>1
<1>3. 0 \notin DOMAIN nodes
  OBVIOUS
<1>4. CASE found = {}
  BY <1>1, <1>3, <1>4 DEF FindNode
<1>5. CASE found # {}
  <2>1. Min(found) \in found
    BY <1>2, <1>5, SmallestIsMin
  <2>2. FindNode(nodes, id, state) = Min(found)
    BY <1>1, <1>5 DEF FindNode
  <2> QED
    BY <1>1, <1>2, <2>1, <2>2
<1> QED
  BY <1>4, <1>5

\* The totals of a pool are numbers.
LEMMA TotalsType ==
    ASSUME NEW nodes \in Seq(NodeType)
    PROVE  /\ Totals(nodes) \in [DOMAIN nodes -> Int]
           /\ \A i \in DOMAIN nodes : Totals(nodes)[i] = nodes[i].total
<1>1. \A i \in DOMAIN nodes : nodes[i] \in NodeType
  OBVIOUS
<1>2. \A i \in DOMAIN nodes : nodes[i].total \in Int
  BY <1>1 DEF NodeType
<1> QED
  BY <1>2 DEF Totals

\* After one node has got a smaller total the list is exact again.
LEMMA OpenAgain ==
    ASSUME NEW s, s.nodes \in Seq(NodeType), OpenInv(s),
           NEW nodes \in Seq(NodeType), NEW i \in DOMAIN nodes,
           DOMAIN nodes = DOMAIN s.nodes \cup {i},
           \A j \in DOMAIN s.nodes : j # i => nodes[j] = s.nodes[j],
           nodes[i].flag = "open",
           i \in DOMAIN s.nodes => nodes[i].total <= s.nodes[i].total,
           NEW open, open = IF i \in DOMAIN s.nodes /\ s.nodes[i].flag = "open"
                            THEN Modify(Totals(nodes), s.open, i)
                            ELSE Push(Totals(nodes), s.open, i)
    PROVE  HeapOf(DOMAIN nodes, Totals(nodes), open, OpenNodes(nodes))
<1>1. PICK N : N = DOMAIN nodes
  OBVIOUS
<1>2. PICK key : key = Totals(nodes)
  OBVIOUS
<1>3. PICK old : old = Totals(s.nodes)
  OBVIOUS
<1>4. key \in [N -> Int]
  BY <1>1, <1>2, TotalsType
<1>5. /\ s.open \in Seq(DOMAIN s.nodes) /\ HeapOrdered(old, s.open) /\ IsInjective(s.open)
      /\ Range(s.open) = OpenNodes(s.nodes)
  BY <1>3 DEF OpenInv
<1>6. s.open \in Seq(N) /\ i \in N
  <2>1. \A p \in 1..Len(s.open) : s.open[p] \in N
    BY <1>1, <1>5
  <2> QED
    BY <1>1, <1>5, <2>1
<1>7. CASE i \in DOMAIN s.nodes /\ s.nodes[i].flag = "open"
  <2>1. N = DOMAIN s.nodes /\ open = Modify(key, s.open, i)
    BY <1>1, <1>2, <1>7
  <2>2. old \in [N -> Int]
    BY <1>3, <2>1, TotalsType
  <2>3. i \in Range(s.open)
    BY <1>5, <1>7 DEF OpenNodes
  <2>4. Lowered(N, key, old, i)
    BY <1>1, <1>2, <1>3, <1>6, <1>7, <2>1 DEF Totals, Lowered
  <2>5. /\ Modify(key, s.open, i) \in Seq(N)
        /\ HeapOrdered(key, Modify(key, s.open, i))
        /\ IsInjective(Modify(key, s.open, i))
        /\ Range(Modify(key, s.open, i)) = Range(s.open)
    <3>1. PICK h \in Seq(N) : h = s.open
      BY <1>6
    <3>2. IsInjective(h) /\ HeapOrdered(old, h) /\ i \in Range(h)
      BY <1>5, <2>3, <3>1
    <3>3. HeapOf(N, key, Modify(key, h, i), Range(h))
      BY <1>4, <1>6, <2>2, <2>4, <3>2, ModifyLemma
    <3> QED
      BY <3>1, <3>3 DEF HeapOf
  <2>6. OpenNodes(s.nodes) = OpenNodes(nodes)
    BY <1>1, <1>7, <2>1 DEF OpenNodes
  <2> QED
    BY <1>1, <1>2, <1>5, <2>1, <2>5, <2>6 DEF HeapOf
<1>8. CASE ~(i \in DOMAIN s.nodes /\ s.nodes[i].flag = "open")
  <2>1. open = Push(key, s.open, i)
    BY <1>2, <1>8
  <2>2. i \notin Range(s.open)
    BY <1>5, <1>8 DEF OpenNodes
  <2>3. HeapOrdered(key, s.open)
    <3>1. \A j \in Range(s.open) : key[j] = old[j]
      BY <1>1, <1>2, <1>3, <1>5, <2>2 DEF Totals, OpenNodes
    <3>2. ASSUME NEW q \in 2..Len(s.open) PROVE key[s.open[q \div 2]] <= key[s.open[q]]
      <4>1. q \in DOMAIN s.open /\ q \div 2 \in DOMAIN s.open
        BY <1>5
      <4>2. s.open[q] \in Range(s.open) /\ s.open[q \div 2] \in Range(s.open)
        BY <4>1 DEF Range
      <4>3. old[s.open[q \div 2]] <= old[s.open[q]]
        BY <1>5 DEF HeapOrdered
      <4> QED
        BY <3>1, <4>2, <4>3
    <3> QED
      BY <3>2 DEF HeapOrdered
  <2>4. /\ Push(key, s.open, i) \in Seq(N)
        /\ HeapOrdered(key, Push(key, s.open, i))
        /\ IsInjective(Push(key, s.open, i))
        /\ Range(Push(key, s.open, i)) = Range(s.open) \cup {i}
    <3>1. IsInjective(s.open) /\ s.open \in Seq(N)
      BY <1>5, <1>6
    <3> QED
      BY <1>4, <1>6, <2>2, <2>3, <3>1, PushLemma
  <2>5. OpenNodes(s.nodes) \cup {i} = OpenNodes(nodes)
    <3>1. \A j \in DOMAIN nodes : j # i => j \in DOMAIN s.nodes /\ nodes[j] = s.nodes[j]
      OBVIOUS
    <3> QED
      BY <3>1 DEF OpenNodes
  <2> QED
    BY <1>1, <1>2, <1>5, <2>1, <2>4, <2>5 DEF HeapOf
<1> QED
  BY <1>7, <1>8

\* The pool's nodes and the links between polygons have their types.
LEMMA PoolTypes ==
    ASSUME NEW pr \in ProblemType, NEW s, PoolInv(pr, s)
    PROVE  /\ s.nodes \in Seq(NodeType) /\ Len(s.nodes) \in Nat \ {0}
           /\ DOMAIN s.nodes = 1..Len(s.nodes) /\ 1 \in DOMAIN s.nodes
           /\ \A i \in DOMAIN s.nodes :
                /\ i \in Nat \ {0}
                /\ s.nodes[i] \in NodeType
                /\ s.nodes[i].id \in Poly /\ s.nodes[i].state \in 0..3 /\ s.nodes[i].pos \in Int
                /\ s.nodes[i].cost \in Nat /\ s.nodes[i].total \in Nat /\ s.nodes[i].pidx \in Nat
                /\ s.nodes[i].flag \in {"open", "closed"}
                /\ s.nodes[i].pidx # 0 => s.nodes[i].pidx \in DOMAIN s.nodes
                /\ \A l \in Range(Links(pr.graph, s.nodes[i].id)) :
                      l.to \in Poly /\ l.side \in 0..3 /\ l.mid \in Int
<1>1. PICK n : n = Len(s.nodes)
  OBVIOUS
<1>2. s.nodes \in Seq(NodeType) /\ n \in 1..pr.maxNodes /\ pr.maxNodes \in Nat /\ pr.graph \in Graphs
  BY <1>1, SearchAssumption DEF PoolInv, SearchType, ProblemType
<1>3. n \in Nat \ {0} /\ DOMAIN s.nodes = 1..n /\ 1 \in 1..n
  BY <1>1, <1>2
<1>4. ASSUME NEW i \in 1..n
      PROVE  /\ s.nodes[i] \in NodeType
             /\ s.nodes[i].id \in Poly /\ s.nodes[i].state \in 0..3 /\ s.nodes[i].pos \in Int
             /\ s.nodes[i].cost \in Nat /\ s.nodes[i].total \in Nat /\ s.nodes[i].pidx \in Nat
             /\ s.nodes[i].flag \in {"open", "closed"}
  <2>1. s.nodes[i] \in NodeType
    BY <1>1, <1>2
  <2> QED
    BY <2>1 DEF NodeType
<1>5. \A i \in 1..n : s.nodes[i].pidx \in 0..n
  BY <1>1, <1>3 DEF PoolInv
<1>6. ASSUME NEW i \in 1..n, NEW l \in Range(Links(pr.graph, s.nodes[i].id))
      PROVE  l.to \in Poly /\ l.side \in 0..3 /\ l.mid \in Int
  <2>1. PICK links \in Seq([to : Poly, side : 0..3, mid : Int]) : links = Links(pr.graph, s.nodes[i].id)
    BY <1>2, <1>4, SearchAssumption
  <2>2. PICK m \in DOMAIN links : l = links[m]
    BY <2>1 DEF Range
  <2>3. \A T : \A q \in Seq(T) : \A k \in DOMAIN q : q[k] \in T
    OBVIOUS
  <2>4. l \in [to : Poly, side : 0..3, mid : Int]
    BY <2>1, <2>2, <2>3
  <2> QED
    BY <2>4
<1> QED
  BY <1>1, <1>2, <1>3, <1>4, <1>5, <1>6

\* What following a link comes to.
LEMMA RelaxFollows ==
    ASSUME NEW pr \in ProblemType, NEW s, Sound(pr, s), Start # End,
           NEW b \in DOMAIN s.nodes, NEW link \in Range(Links(pr.graph, s.nodes[b].id)),
           NEW t, t = Relax(pr, s, b, link)
    PROVE  \/ t = s /\ (link.to \in Passes => Leads(s, link.to))
           \/ t = [s EXCEPT !.short = TRUE]
           \/ \E i : Follow(pr, s, b, link, i, t)
<1> USE DEF ProblemType
<1>1. PoolInv(pr, s) /\ OpenInv(s) /\ TreeInv(pr, s)
  BY DEF Sound
<1>2. PICK len : len = Len(s.nodes)
  OBVIOUS
<1>3. /\ s.nodes \in Seq(NodeType) /\ len \in Nat \ {0} /\ DOMAIN s.nodes = 1..len
      /\ \A i \in 1..len : /\ s.nodes[i] \in NodeType
                           /\ s.nodes[i].id \in Poly /\ s.nodes[i].state \in 0..3
                           /\ s.nodes[i].pos \in Int
                           /\ s.nodes[i].cost \in Nat /\ s.nodes[i].total \in Nat
                           /\ s.nodes[i].flag \in {"open", "closed"}
                           /\ s.nodes[i].pidx # 0 => s.nodes[i].pidx \in 1..len
      /\ link.to \in Poly /\ link.side \in 0..3 /\ link.mid \in Int
  BY <1>1, <1>2, PoolTypes
<1> DEFINE from == s.nodes[b]
           found == FindNode(s.nodes, link.to, link.side)
           i == IF found # 0 THEN found ELSE Len(s.nodes) + 1
           node == IF found # 0 THEN s.nodes[i]
                   ELSE [id |-> link.to, state |-> link.side, pos |-> link.mid, pidx |-> 0,
                         cost |-> 0, total |-> 0, flag |-> "new"]
           last == IF link.to = End THEN Cost(node.pos, EndPos, link.to) ELSE 0
           cost == from.cost + Cost(from.pos, node.pos, from.id) + last
           heuristic == Heuristic(link.to, node.pos)
           new == [node EXCEPT !.pidx = b, !.cost = cost, !.total = cost + heuristic,
                               !.flag = "open"]
           nodes == IF found # 0 THEN [s.nodes EXCEPT ![i] = new] ELSE Append(s.nodes, new)
           open == IF node.flag = "open" THEN Modify(Totals(nodes), s.open, i)
                   ELSE Push(Totals(nodes), s.open, i)
<1>4. t = IF Skipped(s, b, link) THEN s
          ELSE IF found = 0 /\ ~Room(pr, s.nodes) THEN [s EXCEPT !.short = TRUE]
          ELSE IF ~Improves(node, cost + heuristic) THEN s
          ELSE [s EXCEPT !.nodes = nodes, !.open = open,
                         !.best = IF Nearer(heuristic, s.bestCost) THEN i ELSE @,
                         !.bestCost = IF Nearer(heuristic, s.bestCost) THEN heuristic ELSE @]
  BY DEF Relax
<1>5. found = FindNode(s.nodes, link.to, link.side)
  OBVIOUS
<1> HIDE DEF found
<1>6. i = IF found # 0 THEN found ELSE Len(s.nodes) + 1
  OBVIOUS
<1> HIDE DEF i
<1>7. node = IF found # 0 THEN s.nodes[i]
             ELSE [id |-> link.to, state |-> link.side, pos |-> link.mid, pidx |-> 0,
                   cost |-> 0, total |-> 0, flag |-> "new"]
  OBVIOUS
<1> HIDE DEF node
<1>8. last = IF link.to = End THEN Cost(node.pos, EndPos, link.to) ELSE 0
  OBVIOUS
<1> HIDE DEF last
<1>9. from = s.nodes[b] /\ cost = from.cost + Cost(from.pos, node.pos, from.id) + last
  OBVIOUS
<1> HIDE DEF from, cost
<1>10. heuristic = Heuristic(link.to, node.pos)
  OBVIOUS
<1> HIDE DEF heuristic
<1>11. new = [node EXCEPT !.pidx = b, !.cost = cost, !.total = cost + heuristic, !.flag = "open"]
  OBVIOUS
<1> HIDE DEF new
<1>12. nodes = IF found # 0 THEN [s.nodes EXCEPT ![i] = new] ELSE Append(s.nodes, new)
  OBVIOUS
<1> HIDE DEF nodes
<1>13. open = IF node.flag = "open" THEN Modify(Totals(nodes), s.open, i)
              ELSE Push(Totals(nodes), s.open, i)
  OBVIOUS
<1> HIDE DEF open
<1>15. /\ found = 0 \/ found \in 1..len
       /\ found \in 1..len => s.nodes[found].id = link.to /\ s.nodes[found].state = link.side
  BY <1>3, <1>5, FindNodeLemma
<1>16. CASE Skipped(s, b, link)
  <2>1. ASSUME link.to \in Passes PROVE Leads(s, link.to)
    BY <1>3, <1>16, <2>1 DEF Skipped, Leads
  <2> QED
    BY <1>4, <1>16, <2>1
<1>17. CASE ~Skipped(s, b, link) /\ found = 0 /\ ~Room(pr, s.nodes)
  BY <1>4, <1>17
<1>18. CASE /\ ~Skipped(s, b, link) /\ ~(found = 0 /\ ~Room(pr, s.nodes))
            /\ ~Improves(node, cost + heuristic)
  <2>1. t = s
    BY <1>4, <1>18
  <2>2. found # 0
    BY <1>7, <1>18 DEF Improves
  <2>3. Leads(s, link.to)
    BY <1>3, <1>15, <2>2 DEF Leads
  <2> QED
    BY <2>1, <2>3
<1>19. CASE /\ ~Skipped(s, b, link) /\ ~(found = 0 /\ ~Room(pr, s.nodes))
            /\ Improves(node, cost + heuristic)
  <2>1. PICK best : best = IF Nearer(heuristic, s.bestCost) THEN i ELSE s.best
    OBVIOUS
  <2>2. PICK bestCost : bestCost = IF Nearer(heuristic, s.bestCost) THEN heuristic ELSE s.bestCost
    OBVIOUS
  <2>3. t = [s EXCEPT !.nodes = nodes, !.open = open, !.best = best, !.bestCost = bestCost]
    BY <1>4, <1>19, <2>1, <2>2
  <2>4. /\ s \in [nodes : Seq(NodeType), open : Seq(Nat), best : Nat, bestCost : Nat, short : BOOLEAN]
    BY <1>1 DEF PoolInv, SearchType
  <2>5. /\ t.nodes = nodes /\ t.open = open /\ t.best = best /\ t.bestCost = bestCost
        /\ t.short = s.short
    BY <2>3, <2>4
  <2>6. /\ node.id = link.to /\ node.state = link.side /\ node.pos \in Int
        /\ i \in 1..(len + 1)
        /\ found # 0 => i = found /\ i \in 1..len /\ node = s.nodes[i]
        /\ found = 0 => i = len + 1 /\ i \notin 1..len /\ node.flag = "new"
    BY <1>2, <1>3, <1>6, <1>7, <1>15
  <2>7. last \in Nat /\ Cost(from.pos, node.pos, from.id) \in Nat /\ heuristic \in Nat
    <3>1. Cost(node.pos, EndPos, link.to) \in Nat
      BY <1>3, <2>6, Measures, SearchAssumption
    <3>2. from.pos \in Int /\ from.id \in Poly
      BY <1>3, <1>9
    <3> QED
      BY <1>3, <1>8, <1>10, <2>6, <3>1, <3>2, Measures
  <2>8. cost \in Nat /\ cost + heuristic \in Nat
        /\ cost >= from.cost + Cost(from.pos, node.pos, from.id)
    <3>1. from.cost \in Nat
      BY <1>3, <1>9
    <3> QED
      BY <1>9, <2>7, <3>1
  <2>9. /\ new.id = link.to /\ new.state = link.side /\ new.pos = node.pos /\ new.pidx = b
        /\ new.cost = cost /\ new.total = cost + heuristic /\ new.flag = "open"
        /\ new \in NodeType
    <3>1. \/ node \in NodeType
          \/ node = [id |-> link.to, state |-> link.side, pos |-> link.mid, pidx |-> 0,
                     cost |-> 0, total |-> 0, flag |-> "new"]
      BY <1>3, <1>7, <2>6
    <3>2. b \in Nat
      BY <1>3
    <3> QED
      BY <1>3, <1>11, <2>6, <2>8, <3>1, <3>2 DEF NodeType
  <2>10. i # 1
    <3> SUFFICES ASSUME i = 1 PROVE FALSE
      OBVIOUS
    <3>1. found = 1 /\ node = s.nodes[1]
      BY <1>3, <2>6
    <3>2. link.to = Start /\ node.pos = StartPos /\ node.flag # "new"
          /\ node.total = HScale * Dist(StartPos, EndPos)
      BY <1>1, <1>3, <2>6, <3>1 DEF PoolInv
    <3>3. heuristic = node.total
      BY <1>10, <3>2 DEF Heuristic
    <3>4. cost + heuristic < heuristic
      BY <1>19, <3>2, <3>3 DEF Improves
    <3> QED
      BY <2>7, <2>8, <3>4
  <2>11. ASSUME i \in 1..len
         PROVE  /\ new.id = s.nodes[i].id /\ new.pos = s.nodes[i].pos
                /\ new.total < s.nodes[i].total /\ new.cost < s.nodes[i].cost
    <3>1. node = s.nodes[i] /\ node.flag # "new"
      BY <1>3, <2>6, <2>11
    <3>2. cost + heuristic < node.total
      BY <1>19, <3>1 DEF Improves
    <3>3. node.total = node.cost + heuristic
      BY <1>1, <1>3, <1>10, <2>6, <2>10, <2>11, <3>1 DEF TreeInv, Reached
    <3>4. node.cost \in Nat
      BY <1>3, <2>11, <3>1
    <3>5. cost < node.cost
      BY <2>7, <2>8, <3>2, <3>3, <3>4
    <3> QED
      BY <2>6, <2>9, <3>1, <3>2, <3>5
  <2>12. /\ nodes \in Seq(NodeType) /\ DOMAIN nodes = 1..len \cup {i} /\ nodes[i] = new
         /\ Len(nodes) >= len /\ Len(nodes) <= pr.maxNodes /\ Len(nodes) \in Nat
         /\ \A j \in 1..len : j # i => nodes[j] = s.nodes[j]
    <3>1. pr.maxNodes \in Nat /\ len <= pr.maxNodes
      <4>1. pr.maxNodes \in Nat
        BY SearchAssumption
      <4>2. len \in 1..pr.maxNodes
        BY <1>1, <1>2 DEF PoolInv
      <4> QED
        BY <4>1, <4>2
    <3>2. CASE found # 0
      <4>1. i \in 1..len /\ nodes = [s.nodes EXCEPT ![i] = new]
        BY <1>12, <2>6, <3>2
      <4>2. nodes \in Seq(NodeType) /\ Len(nodes) = len
        BY <1>2, <1>3, <2>9, <4>1, ExceptSeq
      <4> QED
        BY <1>3, <3>1, <4>1, <4>2
    <3>3. CASE found = 0
      <4>1. i = len + 1 /\ nodes = Append(s.nodes, new)
        BY <1>12, <2>6, <3>3
      <4>2. /\ nodes \in Seq(NodeType) /\ Len(nodes) = len + 1 /\ nodes[len + 1] = new
            /\ \A j \in 1..len : nodes[j] = s.nodes[j]
        BY <1>2, <1>3, <2>9, <4>1, AppendProperties
      <4>3. DOMAIN nodes = 1..(len + 1)
        BY <4>2
      <4>4. len < pr.maxNodes
        BY <1>2, <1>19, <3>3 DEF Room
      <4>5. 1..(len + 1) = 1..len \cup {len + 1}
        BY <1>3
      <4> QED
        BY <1>3, <3>1, <4>1, <4>2, <4>3, <4>4, <4>5
    <3> QED
      BY <3>2, <3>3
  <2>13. OpenInv(t)
    <3>1. open = IF i \in DOMAIN s.nodes /\ s.nodes[i].flag = "open"
                 THEN Modify(Totals(nodes), s.open, i) ELSE Push(Totals(nodes), s.open, i)
      <4>1. i \in DOMAIN s.nodes <=> found # 0
        BY <1>3, <2>6
      <4> QED
        BY <1>13, <2>6, <4>1
    <3>2. i \in DOMAIN s.nodes => nodes[i].total <= s.nodes[i].total
      <4>1. \A m, n \in Nat : m < n => m <= n
        OBVIOUS
      <4> QED
        BY <1>3, <2>8, <2>9, <2>11, <2>12, <4>1
    <3>3. nodes[i].flag = "open" /\ i \in DOMAIN nodes /\ DOMAIN nodes = DOMAIN s.nodes \cup {i}
      BY <1>3, <2>9, <2>12
    <3>4. \A j \in DOMAIN s.nodes : j # i => nodes[j] = s.nodes[j]
      BY <1>3, <2>12
    <3>5. nodes \in Seq(NodeType)
      BY <2>12
    <3>6. HeapOf(DOMAIN nodes, Totals(nodes), open, OpenNodes(nodes))
      BY <1>1, <1>3, <3>1, <3>2, <3>3, <3>4, <3>5, OpenAgain
    <3> QED
      BY <2>5, <3>6 DEF HeapOf, OpenInv
  <2>14. t \in SearchType
    <3>1. best \in Nat /\ bestCost \in Nat
      BY <2>1, <2>2, <2>4, <2>6, <2>7
    <3>2. DOMAIN nodes \subseteq Nat
      BY <1>3, <2>6, <2>12
    <3>3. open \in Seq(Nat)
      BY <2>5, <2>13, <3>2 DEF OpenInv
    <3> QED
      BY <2>3, <2>4, <2>12, <3>1, <3>3 DEF SearchType
  <2>15. \/ t.best = i /\ t.bestCost = Nearness(t, i) /\ t.bestCost < s.bestCost
         \/ t.best = s.best /\ t.bestCost = s.bestCost /\ s.bestCost <= Nearness(t, i)
    <3>1. Nearness(t, i) = heuristic
      BY <1>10, <2>5, <2>9, <2>10, <2>12 DEF Nearness
    <3>2. s.bestCost \in Nat
      BY <2>4
    <3> QED
      BY <2>1, <2>2, <2>5, <2>7, <3>1, <3>2 DEF Nearer
  <2>16. link.to \in Passes
    BY <1>19 DEF Skipped
  <2>17. Follow(pr, s, b, link, i, t)
    <3>1. /\ t.nodes[i].cost >= from.cost + Cost(from.pos, t.nodes[i].pos, from.id)
          /\ t.nodes[i].total = t.nodes[i].cost + Heuristic(t.nodes[i].id, t.nodes[i].pos)
      BY <1>10, <2>5, <2>8, <2>9, <2>12
    <3>2. /\ t.nodes[i].id = link.to /\ t.nodes[i].state = link.side
          /\ t.nodes[i].pidx = b /\ t.nodes[i].flag = "open"
      BY <2>5, <2>9, <2>12
    <3>3. i \in DOMAIN s.nodes =>
            /\ t.nodes[i].id = s.nodes[i].id /\ t.nodes[i].pos = s.nodes[i].pos
            /\ t.nodes[i].total < s.nodes[i].total /\ t.nodes[i].cost < s.nodes[i].cost
      BY <1>3, <2>5, <2>11, <2>12
    <3>4. /\ Len(t.nodes) <= pr.maxNodes /\ Len(s.nodes) <= Len(t.nodes)
          /\ DOMAIN t.nodes = DOMAIN s.nodes \cup {i}
          /\ \A j \in DOMAIN s.nodes : j # i => t.nodes[j] = s.nodes[j]
      BY <1>2, <1>3, <2>5, <2>12
    <3> QED
      BY <1>9, <2>5, <2>10, <2>13, <2>14, <2>15, <2>16, <3>1, <3>2, <3>3, <3>4 DEF Follow
  <2> QED
    BY <2>17
<1> QED
  BY <1>16, <1>17, <1>18, <1>19

\* The invariant stays, the search grows, and there is a node where the link leads.
LEMMA FollowSound ==
    ASSUME NEW pr \in ProblemType, NEW s, Sound(pr, s), Start # End,
           NEW b \in DOMAIN s.nodes, NEW link \in Range(Links(pr.graph, s.nodes[b].id)),
           NEW i, NEW t, Follow(pr, s, b, link, i, t)
    PROVE  Sound(pr, t) /\ Grown(s, t) /\ Leads(t, link.to)
<1>1. PICK len : len = Len(s.nodes)
  OBVIOUS
<1>2. PICK tlen : tlen = Len(t.nodes)
  OBVIOUS
<1>3. PoolInv(pr, s) /\ TreeInv(pr, s) /\ Rooted(s) /\ NearInv(s)
  BY DEF Sound
<1>4. /\ len \in Nat \ {0} /\ DOMAIN s.nodes = 1..len
      /\ \A j \in 1..len : /\ s.nodes[j] \in NodeType
                           /\ s.nodes[j].id \in Poly /\ s.nodes[j].pos \in Int
                           /\ s.nodes[j].cost \in Nat /\ s.nodes[j].total \in Nat
                           /\ s.nodes[j].flag \in {"open", "closed"}
                           /\ s.nodes[j].pidx \in Nat
                           /\ s.nodes[j].pidx # 0 => s.nodes[j].pidx \in 1..len
  BY <1>1, <1>3, PoolTypes
<1>5. /\ t \in SearchType /\ tlen <= pr.maxNodes /\ len <= tlen
      /\ DOMAIN t.nodes = DOMAIN s.nodes \cup {i} /\ i # 1
      /\ \A j \in DOMAIN s.nodes : j # i => t.nodes[j] = s.nodes[j]
      /\ t.nodes[i].id = link.to /\ t.nodes[i].state = link.side
      /\ t.nodes[i].pidx = b /\ t.nodes[i].flag = "open" /\ link.to \in Passes
      /\ t.nodes[i].cost >= s.nodes[b].cost + Cost(s.nodes[b].pos, t.nodes[i].pos, s.nodes[b].id)
      /\ t.nodes[i].total = t.nodes[i].cost + Heuristic(t.nodes[i].id, t.nodes[i].pos)
      /\ i \in DOMAIN s.nodes =>
            /\ t.nodes[i].id = s.nodes[i].id /\ t.nodes[i].pos = s.nodes[i].pos
            /\ t.nodes[i].total < s.nodes[i].total /\ t.nodes[i].cost < s.nodes[i].cost
      /\ OpenInv(t) /\ t.short = s.short
      /\ \/ t.best = i /\ t.bestCost = Nearness(t, i) /\ t.bestCost < s.bestCost
         \/ t.best = s.best /\ t.bestCost = s.bestCost /\ s.bestCost <= Nearness(t, i)
  BY <1>1, <1>2 DEF Follow
<1>6. tlen \in Nat /\ DOMAIN t.nodes = 1..tlen /\ \A j \in 1..tlen : t.nodes[j] \in NodeType
  <2>1. t.nodes \in Seq(NodeType)
    BY <1>5 DEF SearchType
  <2> QED
    BY <1>2, <2>1
<1>7. \A j \in 1..tlen : /\ t.nodes[j].id \in Poly /\ t.nodes[j].pos \in Int
                         /\ t.nodes[j].cost \in Nat /\ t.nodes[j].total \in Nat
  BY <1>6 DEF NodeType
<1>8. /\ 1..tlen = 1..len \cup {i} /\ i \in 1..tlen /\ b \in 1..len /\ b \in 1..tlen
      /\ \A j \in 1..tlen : j # i => j \in 1..len
      /\ \A j \in 1..len : j \in 1..tlen
  BY <1>4, <1>5, <1>6
<1>9. Cost(s.nodes[b].pos, t.nodes[i].pos, s.nodes[b].id) \in Nat
  BY <1>4, <1>7, <1>8, Measures
<1>10. t.nodes[i].cost >= s.nodes[b].cost
  <2>1. \A x, y, z \in Nat : x >= y + z => x >= y
    OBVIOUS
  <2> QED
    BY <1>4, <1>5, <1>7, <1>8, <1>9, <2>1
<1>11. i # b
  <2> SUFFICES ASSUME i = b PROVE FALSE
    OBVIOUS
  <2>1. t.nodes[i].cost < s.nodes[i].cost
    BY <1>5
  <2>2. \A x, y \in Nat : ~(x < y /\ x >= y)
    OBVIOUS
  <2> QED
    BY <1>4, <1>7, <1>8, <1>10, <2>1, <2>2
<1>12. t.nodes[b] = s.nodes[b] /\ t.nodes[1] = s.nodes[1]
  <2>1. 1 \in 1..len
    BY <1>4
  <2> QED
    BY <1>4, <1>5, <1>8, <1>11, <2>1
<1>13. PoolInv(pr, t)
  <2>1. pr.maxNodes \in Nat
    BY SearchAssumption DEF ProblemType
  <2>2. tlen \in 1..pr.maxNodes
    BY <1>4, <1>5, <1>6, <2>1
  <2>3. t.best \in DOMAIN t.nodes
    BY <1>3, <1>5 DEF PoolInv
  <2>4. ASSUME NEW j \in 1..tlen PROVE t.nodes[j].pidx \in 0..tlen
    <3>1. CASE j = i
      BY <1>5, <1>6, <1>8, <3>1
    <3>2. CASE j # i
      <4>1. t.nodes[j] = s.nodes[j] /\ j \in 1..len
        BY <1>4, <1>5, <1>8, <3>2
      <4>2. s.nodes[j].pidx \in 0..len
        BY <1>1, <1>3, <1>4, <4>1 DEF PoolInv
      <4> QED
        BY <1>4, <1>5, <1>6, <4>1, <4>2
    <3> QED
      BY <3>1, <3>2
  <2>5. /\ t.nodes[1].id = Start /\ t.nodes[1].pos = StartPos
        /\ t.nodes[1].pidx = 0 /\ t.nodes[1].cost = 0
        /\ t.nodes[1].total = HScale * Dist(StartPos, EndPos)
    BY <1>3, <1>12 DEF PoolInv
  <2> QED
    BY <1>2, <1>5, <1>6, <2>2, <2>3, <2>4, <2>5 DEF PoolInv
<1>14. TreeInv(pr, t)
  <2> SUFFICES ASSUME NEW j \in 1..tlen, j # 1 PROVE Reached(pr, t, j)
    BY <1>6 DEF TreeInv
  <2>1. CASE j = i
    <3>1. t.nodes[t.nodes[i].pidx] = s.nodes[b] /\ t.nodes[i].pidx # 0
      BY <1>4, <1>5, <1>8, <1>12
    <3>2. t.nodes[i].cost >= s.nodes[b].cost + Cost(s.nodes[b].pos, t.nodes[i].pos, s.nodes[b].id)
      BY <1>5
    <3> QED
      BY <1>5, <2>1, <3>1, <3>2 DEF Reached
  <2>2. CASE j # i
    <3>1. j \in 1..len /\ t.nodes[j] = s.nodes[j]
      BY <1>4, <1>5, <1>8, <2>2
    <3>2. PICK p : p = s.nodes[j].pidx
      OBVIOUS
    <3>3. /\ s.nodes[j].total = s.nodes[j].cost + Heuristic(s.nodes[j].id, s.nodes[j].pos)
          /\ p # 0 /\ s.nodes[j].id \in Passes
          /\ \E l \in Range(Links(pr.graph, s.nodes[p].id)) :
                l.to = s.nodes[j].id /\ l.side = s.nodes[j].state
          /\ s.nodes[j].cost >= s.nodes[p].cost + Cost(s.nodes[p].pos, s.nodes[j].pos, s.nodes[p].id)
      BY <1>3, <1>4, <2>2, <3>1, <3>2 DEF TreeInv, Reached
    <3>4. p \in 1..len
      BY <1>4, <3>1, <3>2, <3>3
    <3>5. /\ t.nodes[p].id = s.nodes[p].id /\ t.nodes[p].pos = s.nodes[p].pos
          /\ t.nodes[p].cost <= s.nodes[p].cost
      <4>1. CASE p = i
        <5>1. \A x, y \in Nat : x < y => x <= y
          OBVIOUS
        <5>2. t.nodes[p].cost < s.nodes[p].cost
          BY <1>4, <1>5, <3>4, <4>1
        <5>3. t.nodes[p].cost \in Nat /\ s.nodes[p].cost \in Nat
          BY <1>4, <1>7, <1>8, <3>4
        <5>4. t.nodes[p].cost <= s.nodes[p].cost
          BY <5>1, <5>2, <5>3
        <5> QED
          BY <1>4, <1>5, <3>4, <4>1, <5>4
      <4>2. CASE p # i
        <5>1. \A x \in Nat : x <= x
          OBVIOUS
        <5>2. t.nodes[p] = s.nodes[p]
          BY <1>4, <1>5, <3>4, <4>2
        <5> QED
          BY <1>4, <3>4, <5>1, <5>2
      <4> QED
        BY <4>1, <4>2
    <3>6. Cost(s.nodes[p].pos, s.nodes[j].pos, s.nodes[p].id) \in Nat
      BY <1>4, <3>1, <3>4, Measures
    <3>7. s.nodes[j].cost >= t.nodes[p].cost + Cost(s.nodes[p].pos, s.nodes[j].pos, s.nodes[p].id)
      <4>1. \A w, x, y, z \in Nat : w >= x + z /\ y <= x => w >= y + z
        OBVIOUS
      <4>2. s.nodes[j].cost \in Nat /\ s.nodes[p].cost \in Nat /\ t.nodes[p].cost \in Nat
        BY <1>4, <1>7, <1>8, <3>1, <3>4
      <4> QED
        BY <3>3, <3>5, <3>6, <4>1, <4>2
    <3> QED
      BY <3>1, <3>2, <3>3, <3>5, <3>7 DEF Reached
  <2> QED
    BY <2>1, <2>2
<1>15. Rooted(t)
  <2> SUFFICES ASSUME NEW C, C \subseteq 1..tlen, C # {}, ParentClosed(t, C) PROVE 1 \in C
    BY <1>6 DEF Rooted
  <2>1. \A j \in C : j # i => j \in 1..len /\ t.nodes[j] = s.nodes[j]
    BY <1>4, <1>5, <1>8
  <2>2. CASE i \notin C
    <3>1. C \subseteq 1..len /\ ParentClosed(s, C)
      BY <2>1, <2>2 DEF ParentClosed
    <3> QED
      BY <1>3, <1>4, <3>1 DEF Rooted
  <2>3. CASE i \in C
    <3> DEFINE D == {j \in C \cap 1..len : s.nodes[j].cost <= s.nodes[b].cost}
    <3>1. b \in C
      BY <1>4, <1>5, <1>8, <2>3 DEF ParentClosed
    <3>2. b \in D /\ D \subseteq 1..len
      BY <1>4, <1>8, <3>1
    <3>3. i \notin D
      <4> SUFFICES ASSUME i \in 1..len, s.nodes[i].cost <= s.nodes[b].cost PROVE FALSE
        OBVIOUS
      <4>1. t.nodes[i].cost < s.nodes[i].cost
        BY <1>4, <1>5
      <4>2. \A x, y, z \in Nat : ~(x < y /\ y <= z /\ x >= z)
        OBVIOUS
      <4> QED
        BY <1>4, <1>7, <1>8, <1>10, <4>1, <4>2
    <3>4. ASSUME NEW j \in D, s.nodes[j].pidx # 0 PROVE s.nodes[j].pidx \in D
      <4>1. j \in 1..len /\ j # i /\ j \in C /\ s.nodes[j].cost <= s.nodes[b].cost
        BY <3>3
      <4>2. PICK p : p = s.nodes[j].pidx
        OBVIOUS
      <4>3. p \in C /\ p \in 1..len
        BY <1>4, <2>1, <3>4, <4>1, <4>2 DEF ParentClosed
      <4>4. s.nodes[j].cost >= s.nodes[p].cost
        <5>1. j # 1
          BY <1>3, <3>4 DEF PoolInv
        <5>2. s.nodes[j].cost >= s.nodes[p].cost + Cost(s.nodes[p].pos, s.nodes[j].pos, s.nodes[p].id)
          BY <1>3, <1>4, <4>1, <4>2, <5>1 DEF TreeInv, Reached
        <5>3. Cost(s.nodes[p].pos, s.nodes[j].pos, s.nodes[p].id) \in Nat
          BY <1>4, <4>1, <4>3, Measures
        <5>4. \A x, y, z \in Nat : x >= y + z => x >= y
          OBVIOUS
        <5> QED
          BY <1>4, <4>1, <4>3, <5>2, <5>3, <5>4
      <4>5. \A x, y, z \in Nat : y >= x /\ y <= z => x <= z
        OBVIOUS
      <4>6. s.nodes[p].cost <= s.nodes[b].cost
        BY <1>4, <1>8, <4>1, <4>3, <4>4, <4>5
      <4> QED
        BY <4>2, <4>3, <4>6
    <3> HIDE DEF D
    <3>5. 1 \in D
      BY <1>3, <1>4, <3>2, <3>4 DEF Rooted, ParentClosed
    <3> QED
      BY <3>5 DEF D
  <2> QED
    BY <2>2, <2>3
<1>16. NearInv(t)
  <2>1. \A j \in 1..len : j # i => Nearness(t, j) = Nearness(s, j)
    BY <1>4, <1>5 DEF Nearness
  <2>2. i \in 1..len => Nearness(t, i) = Nearness(s, i)
    BY <1>4, <1>5 DEF Nearness
  <2>3. \A j \in 1..len : s.bestCost <= Nearness(t, j)
    BY <1>3, <1>4, <2>1, <2>2 DEF NearInv
  <2>4. s.best \in 1..len /\ s.bestCost = Nearness(t, s.best)
    BY <1>3, <1>4, <2>1, <2>2 DEF NearInv, PoolInv
  <2>5. \A j \in 1..tlen : Nearness(t, j) \in Nat
    BY <1>7, Measures, NatProduct, SearchAssumption DEF Nearness
  <2>6. s.bestCost \in Nat /\ t.bestCost \in Nat
    BY <1>3, <1>5 DEF PoolInv, SearchType
  <2>7. \A j \in 1..tlen : t.bestCost <= Nearness(t, j)
    <3>1. \A x, y, z \in Nat : x < y /\ y <= z => x <= z
      OBVIOUS
    <3>2. \A x \in Nat : x <= x
      OBVIOUS
    <3> QED
      BY <1>5, <1>8, <2>3, <2>5, <2>6, <3>1, <3>2
  <2> QED
    BY <1>5, <1>6, <2>4, <2>7 DEF NearInv
<1>17. Grown(s, t)
  <2>1. ASSUME NEW j \in DOMAIN s.nodes
        PROVE  /\ j \in DOMAIN t.nodes /\ t.nodes[j].id = s.nodes[j].id
               /\ t.nodes[j].total <= s.nodes[j].total
               /\ s.nodes[j].flag = "closed" /\ t.nodes[j].flag = "open" =>
                     t.nodes[j].total < s.nodes[j].total
    <3>1. CASE j = i
      <4>1. \A x, y \in Nat : x < y => x <= y
        OBVIOUS
      <4> QED
        BY <1>4, <1>5, <1>7, <1>8, <3>1, <4>1
    <3>2. CASE j # i
      <4>1. \A x \in Nat : x <= x
        OBVIOUS
      <4> QED
        BY <1>4, <1>5, <3>2, <4>1
    <3> QED
      BY <3>1, <3>2
  <2> QED
    BY <1>1, <1>2, <1>5, <2>1 DEF Grown
<1>18. Leads(t, link.to)
  BY <1>5 DEF Leads
<1> QED
  BY <1>5, <1>13, <1>14, <1>15, <1>16, <1>17, <1>18 DEF Sound

\* A search grows step by step.
LEMMA GrownTransitive ==
    ASSUME NEW pr \in ProblemType, NEW s, NEW t, NEW u,
           PoolInv(pr, s), PoolInv(pr, t), PoolInv(pr, u), Grown(s, t), Grown(t, u)
    PROVE  Grown(s, u)
<1>1. \A i \in DOMAIN s.nodes : s.nodes[i].total \in Nat /\ s.nodes[i].flag \in {"open", "closed"}
  BY PoolTypes
<1>2. \A i \in DOMAIN t.nodes : t.nodes[i].total \in Nat /\ t.nodes[i].flag \in {"open", "closed"}
  BY PoolTypes
<1>3. \A i \in DOMAIN u.nodes : u.nodes[i].total \in Nat /\ u.nodes[i].flag \in {"open", "closed"}
  BY PoolTypes
<1>4. Len(s.nodes) \in Nat /\ Len(t.nodes) \in Nat /\ Len(u.nodes) \in Nat
  BY PoolTypes
<1>5. Len(s.nodes) <= Len(u.nodes) /\ (s.short => u.short)
  BY <1>4 DEF Grown
<1>6. ASSUME NEW i \in DOMAIN s.nodes
      PROVE  /\ i \in DOMAIN u.nodes /\ u.nodes[i].id = s.nodes[i].id
             /\ u.nodes[i].total <= s.nodes[i].total
             /\ s.nodes[i].flag = "closed" /\ u.nodes[i].flag = "open" =>
                   u.nodes[i].total < s.nodes[i].total
  <2>1. i \in DOMAIN t.nodes /\ i \in DOMAIN u.nodes
    BY DEF Grown
  <2>2. /\ u.nodes[i].id = s.nodes[i].id
        /\ u.nodes[i].total <= t.nodes[i].total /\ t.nodes[i].total <= s.nodes[i].total
        /\ t.nodes[i].flag = "closed" /\ u.nodes[i].flag = "open" =>
              u.nodes[i].total < t.nodes[i].total
        /\ s.nodes[i].flag = "closed" /\ t.nodes[i].flag = "open" =>
              t.nodes[i].total < s.nodes[i].total
    BY <2>1 DEF Grown
  <2> QED
    BY <1>1, <1>2, <1>3, <2>1, <2>2
<1> QED
  BY <1>5, <1>6 DEF Grown

\* Nothing has been closed between s and t.
NoneClosed(s, t) ==
    \A j \in DOMAIN t.nodes : t.nodes[j].flag = "closed" =>
        j \in DOMAIN s.nodes /\ s.nodes[j].flag = "closed" /\ s.nodes[j].id = t.nodes[j].id

\* A link has been followed as far as there were nodes.
Done(link, t) == t.short \/ link.to \notin Passes \/ Leads(t, link.to)

\* Following a link keeps the invariant.
LEMMA RelaxSound ==
    ASSUME NEW pr \in ProblemType, NEW s, Sound(pr, s), Start # End,
           NEW b \in DOMAIN s.nodes, NEW link \in Range(Links(pr.graph, s.nodes[b].id)),
           NEW t, t = Relax(pr, s, b, link)
    PROVE  Sound(pr, t) /\ Grown(s, t) /\ NoneClosed(s, t) /\ Done(link, t)
<1>1. PoolInv(pr, s) /\ \A i \in DOMAIN s.nodes : s.nodes[i].total \in Nat
  BY PoolTypes DEF Sound
<1>2. Grown(s, s)
  <2>1. \A x \in Nat : x <= x
    OBVIOUS
  <2>2. Len(s.nodes) \in Nat
    BY <1>1, PoolTypes
  <2> QED
    BY <1>1, <2>1, <2>2 DEF Grown
<1>3. CASE t = s /\ (link.to \in Passes => Leads(s, link.to))
  BY <1>2, <1>3 DEF NoneClosed, Done
<1>4. CASE t = [s EXCEPT !.short = TRUE]
  <2>1. s \in [nodes : Seq(NodeType), open : Seq(Nat), best : Nat, bestCost : Nat, short : BOOLEAN]
    BY <1>1 DEF PoolInv, SearchType
  <2>2. /\ t.nodes = s.nodes /\ t.open = s.open /\ t.best = s.best /\ t.bestCost = s.bestCost
        /\ t.short = TRUE /\ t \in SearchType
    BY <1>4, <2>1 DEF SearchType
  <2>3. PoolInv(pr, t)
    BY <1>1, <2>2 DEF PoolInv
  <2>4. OpenInv(t) /\ TreeInv(pr, t) /\ Rooted(t) /\ NearInv(t)
    BY <2>2 DEF Sound, OpenInv, TreeInv, Reached, Rooted, ParentClosed, NearInv, Nearness
  <2>5. Grown(s, t) /\ NoneClosed(s, t) /\ Done(link, t)
    BY <1>2, <2>2 DEF Grown, NoneClosed, Done
  <2> QED
    BY <2>3, <2>4, <2>5 DEF Sound
<1>5. ASSUME NEW i, Follow(pr, s, b, link, i, t)
      PROVE  Sound(pr, t) /\ Grown(s, t) /\ NoneClosed(s, t) /\ Done(link, t)
  <2>1. Sound(pr, t) /\ Grown(s, t) /\ Leads(t, link.to)
    BY <1>5, FollowSound
  <2>2. NoneClosed(s, t)
    BY <1>5 DEF Follow, NoneClosed
  <2> QED
    BY <2>1, <2>2 DEF Done
<1> QED
  BY <1>3, <1>4, <1>5, RelaxFollows

\* Following all links of a node keeps the invariant.
LEMMA ExpandSound ==
    ASSUME NEW pr \in ProblemType, NEW s, Sound(pr, s), Start # End,
           NEW b \in DOMAIN s.nodes, NEW links, links = Links(pr.graph, s.nodes[b].id),
           NEW t, t = Expand(pr, s, b, links)
    PROVE  /\ Sound(pr, t) /\ Grown(s, t) /\ NoneClosed(s, t)
           /\ \A l \in Range(links) : Done(l, t)
<1>1. PICK n : n = Len(links)
  OBVIOUS
<1>2. n \in Nat /\ DOMAIN links = 1..n /\ \A k \in 1..n : links[k] \in Range(links)
  <2>1. s.nodes[b].id \in Poly /\ pr.graph \in Graphs
    BY PoolTypes DEF Sound, ProblemType
  <2>2. PICK T : links \in Seq(T)
    BY <2>1, SearchAssumption
  <2> QED
    BY <1>1, <2>2 DEF Range
<1> DEFINE S == {u \in SearchType : Sound(pr, u) /\ Grown(s, u) /\ NoneClosed(s, u)}
           step == [k \in 1..n |-> [u \in S |-> Relax(pr, u, b, links[k])]]
           Eq(f) == f = [k \in 0..n |-> IF k = 0 THEN s ELSE Relax(pr, f[k - 1], b, links[k])]
           After == CHOOSE f : Eq(f)
<1>3. t = After[n]
  BY <1>1 DEF Expand
<1>4. PoolInv(pr, s) /\ s \in S
  <2>1. PoolInv(pr, s) /\ s \in SearchType
    BY DEF Sound, PoolInv
  <2>2. \A i \in DOMAIN s.nodes : s.nodes[i].total \in Nat
    BY <2>1, PoolTypes
  <2>3. (\A x \in Nat : x <= x) /\ Len(s.nodes) \in Nat
    BY <2>1, PoolTypes
  <2> QED
    BY <2>1, <2>2, <2>3 DEF Grown, NoneClosed
<1>5. ASSUME NEW u \in S, NEW k \in 1..n
      PROVE  /\ Relax(pr, u, b, links[k]) \in S /\ Grown(u, Relax(pr, u, b, links[k]))
             /\ Done(links[k], Relax(pr, u, b, links[k]))
  <2>1. Sound(pr, u) /\ Grown(s, u) /\ NoneClosed(s, u)
    OBVIOUS
  <2>2. b \in DOMAIN u.nodes /\ links[k] \in Range(Links(pr.graph, u.nodes[b].id))
    BY <1>2, <2>1 DEF Grown
  <2>3. PICK v : v = Relax(pr, u, b, links[k])
    OBVIOUS
  <2>4. Sound(pr, v) /\ Grown(u, v) /\ NoneClosed(u, v) /\ Done(links[k], v)
    BY <2>1, <2>2, <2>3, RelaxSound
  <2>5. PoolInv(pr, u) /\ PoolInv(pr, v) /\ v \in SearchType
    BY <2>1, <2>4 DEF Sound, PoolInv
  <2>6. Grown(s, v)
    BY <1>4, <2>1, <2>4, <2>5, GrownTransitive
  <2>7. NoneClosed(s, v)
    BY <2>1, <2>4 DEF NoneClosed
  <2> QED
    BY <2>3, <2>4, <2>5, <2>6, <2>7
<1> HIDE DEF S
<1>6. \E f : Eq(f)
  <2>1. step \in [1..n -> [S -> S]]
    BY <1>5
  <2> HIDE DEF step
  <2>2. PICK f \in [0..n -> S] : IsRun(f, n, s, step)
    BY <1>2, <1>4, <2>1, Recursion
  <2>3. \A k \in 1..n : f[k] = Relax(pr, f[k - 1], b, links[k])
    <3> SUFFICES ASSUME NEW k \in 1..n PROVE f[k] = Relax(pr, f[k - 1], b, links[k])
      OBVIOUS
    <3>1. k - 1 \in 0..n
      BY <1>2
    <3>2. f[k - 1] \in S
      BY <3>1
    <3> QED
      BY <2>2, <3>2 DEF step, IsRun
  <2>4. \A k \in 0..n : k # 0 => k \in 1..n
    BY <1>2
  <2>5. f[0] = s
    BY <2>2 DEF IsRun
  <2>6. Eq(f)
    BY <2>2, <2>3, <2>4, <2>5
  <2> QED
    BY <2>6
<1>7. Eq(After)
  <2> HIDE DEF Eq
  <2> QED
    BY <1>6
<1> HIDE DEF After
<1>8. After[0] = s /\ \A k \in 1..n : After[k] = Relax(pr, After[k - 1], b, links[k])
  <2>1. 0 \in 0..n /\ \A k \in 1..n : k \in 0..n /\ k # 0
    BY <1>2
  <2> QED
    BY <1>7, <2>1
<1> HIDE DEF Eq
<1> DEFINE P(k) == After[k] \in S /\ \A j \in 1..k : Done(links[j], After[k])
           Bad == {k \in 0..n : ~P(k)}
<1>9. Bad = {}
  <2> SUFFICES ASSUME Bad # {} PROVE FALSE
    OBVIOUS
  <2>1. PICK k \in Bad : \A j \in Bad : k <= j
    <3>1. Bad \subseteq Nat
      OBVIOUS
    <3> HIDE DEF Bad
    <3> QED
      BY <3>1, Smallest
  <2>2. k \in 0..n /\ ~P(k)
    OBVIOUS
  <2>3. k # 0
    <3>1. P(0)
      BY <1>4, <1>8
    <3> QED
      BY <2>2, <3>1
  <2>4. k \in 1..n /\ k - 1 \in 0..n /\ k - 1 < k
    BY <1>2, <2>2, <2>3
  <2>5. P(k - 1)
    <3>1. k - 1 \notin Bad
      BY <2>1, <2>4
    <3> QED
      BY <2>4, <3>1
  <2>6. After[k] \in S /\ Grown(After[k - 1], After[k]) /\ Done(links[k], After[k])
    BY <1>5, <1>8, <2>4, <2>5
  <2>7. ASSUME NEW j \in 1..k PROVE Done(links[j], After[k])
    <3>1. CASE j = k
      BY <2>6, <3>1
    <3>2. CASE j # k
      <4>1. j \in 1..(k - 1)
        BY <2>4, <3>2
      <4>2. Done(links[j], After[k - 1])
        BY <2>5, <4>1
      <4> QED
        BY <2>6, <4>2 DEF Done, Leads, Grown
    <3> QED
      BY <3>1, <3>2
  <2> QED
    BY <2>2, <2>6, <2>7
<1>10. P(n)
  <2>1. n \in 0..n
    BY <1>2
  <2> QED
    BY <1>9, <2>1
<1>11. \A l \in Range(links) : Done(l, t)
  BY <1>2, <1>3, <1>10 DEF Range
<1> QED
  BY <1>3, <1>10, <1>11 DEF S

----------------------------------------------------------------------------
(* One round *)

\* Taking the top from the open list keeps the invariant.
LEMMA PoppedSound ==
    ASSUME NEW pr \in ProblemType, NEW s, Sound(pr, s), s.open # <<>>,
           NEW b, b = Head(s.open), NEW t, t = Popped(s)
    PROVE  /\ Sound(pr, t) /\ Grown(s, t)
           /\ b \in DOMAIN s.nodes /\ DOMAIN t.nodes = DOMAIN s.nodes
           /\ \A i \in DOMAIN s.nodes :
                /\ t.nodes[i].id = s.nodes[i].id /\ t.nodes[i].pos = s.nodes[i].pos
                /\ i # b => t.nodes[i].flag = s.nodes[i].flag
           /\ t.best = s.best /\ t.bestCost = s.bestCost /\ t.short = s.short
<1>1. PoolInv(pr, s) /\ OpenInv(s) /\ TreeInv(pr, s) /\ Rooted(s) /\ NearInv(s)
  BY DEF Sound
<1>2. PICK N : N = DOMAIN s.nodes
  OBVIOUS
<1>3. PICK key : key = Totals(s.nodes)
  OBVIOUS
<1>4. /\ s.nodes \in Seq(NodeType) /\ 1 \in N
      /\ \A i \in N : i \in Nat /\ s.nodes[i] \in NodeType /\ s.nodes[i].total \in Nat
                      /\ s.nodes[i].pidx \in Nat
  BY <1>1, <1>2, PoolTypes
<1>5. key \in [N -> Int]
  BY <1>2, <1>3, <1>4, TotalsType
<1>6. PICK h \in Seq(N) : h = s.open
  BY <1>1, <1>2 DEF OpenInv
<1>7. h # <<>> /\ HeapOrdered(key, h) /\ IsInjective(h) /\ Range(h) = OpenNodes(s.nodes)
  BY <1>1, <1>3, <1>6 DEF OpenInv
<1>8. b = h[1] /\ b \in N /\ 1 \in DOMAIN h
  BY <1>6, <1>7
<1>9. PICK open : open = Pop(key, h)
  OBVIOUS
<1>10. HeapOf(N, key, open, OpenNodes(s.nodes) \ {b})
  BY <1>5, <1>7, <1>8, <1>9, PopLemma
<1>11. PICK closed : closed = [s.nodes[b] EXCEPT !.flag = "closed"]
  OBVIOUS
<1>12. PICK nodes : nodes = [s.nodes EXCEPT ![b] = closed]
  OBVIOUS
<1>13. s \in [nodes : Seq(NodeType), open : Seq(Nat), best : Nat, bestCost : Nat, short : BOOLEAN]
  BY <1>1 DEF PoolInv, SearchType
<1>14. t = [s EXCEPT !.open = open, !.nodes = nodes]
  BY <1>3, <1>6, <1>9, <1>11, <1>12, <1>13 DEF Popped
<1>15. /\ t.nodes = nodes /\ t.open = open /\ t.best = s.best /\ t.bestCost = s.bestCost
       /\ t.short = s.short
  BY <1>13, <1>14
<1>16. /\ closed \in NodeType /\ closed.flag = "closed"
       /\ closed.id = s.nodes[b].id /\ closed.state = s.nodes[b].state
       /\ closed.pos = s.nodes[b].pos /\ closed.pidx = s.nodes[b].pidx
       /\ closed.cost = s.nodes[b].cost /\ closed.total = s.nodes[b].total
  BY <1>4, <1>8, <1>11 DEF NodeType
<1>17. /\ nodes \in Seq(NodeType) /\ Len(nodes) = Len(s.nodes) /\ DOMAIN nodes = N
       /\ nodes[b] = closed /\ \A i \in N : i # b => nodes[i] = s.nodes[i]
  <2>1. nodes \in Seq(NodeType) /\ Len(nodes) = Len(s.nodes)
    BY <1>2, <1>4, <1>8, <1>12, <1>16, ExceptSeq
  <2> QED
    BY <1>2, <1>4, <1>8, <1>12, <2>1
<1>18. \A i \in N : /\ nodes[i].id = s.nodes[i].id /\ nodes[i].state = s.nodes[i].state
                    /\ nodes[i].pos = s.nodes[i].pos /\ nodes[i].pidx = s.nodes[i].pidx
                    /\ nodes[i].cost = s.nodes[i].cost /\ nodes[i].total = s.nodes[i].total
                    /\ i # b => nodes[i].flag = s.nodes[i].flag
  BY <1>16, <1>17
<1>19. t \in SearchType
  <2>1. open \in Seq(Nat)
    <3>1. N \subseteq Nat
      BY <1>4
    <3>2. open \in Seq(N)
      BY <1>10 DEF HeapOf
    <3> QED
      BY <3>1, <3>2, SeqLarger
  <2> QED
    BY <1>13, <1>14, <1>17, <2>1 DEF SearchType
<1>20. PoolInv(pr, t)
  <2>1. \A i \in N : nodes[i].pidx \in 0..Len(s.nodes)
    BY <1>1, <1>2, <1>18 DEF PoolInv
  <2>2. /\ nodes[1].id = Start /\ nodes[1].pos = StartPos
        /\ nodes[1].pidx = 0 /\ nodes[1].cost = 0
        /\ nodes[1].total = HScale * Dist(StartPos, EndPos)
    BY <1>1, <1>4, <1>18 DEF PoolInv
  <2>3. /\ Len(s.nodes) \in 1..pr.maxNodes /\ s.best \in N /\ (Start = End => Len(s.nodes) = 1)
    BY <1>1, <1>2 DEF PoolInv
  <2> QED
    BY <1>15, <1>17, <1>19, <2>1, <2>2, <2>3 DEF PoolInv
<1>21. OpenInv(t)
  <2>1. Totals(nodes) = key
    BY <1>2, <1>3, <1>17, <1>18 DEF Totals
  <2>2. OpenNodes(nodes) = OpenNodes(s.nodes) \ {b}
    BY <1>2, <1>16, <1>17, <1>18 DEF OpenNodes
  <2> QED
    BY <1>10, <1>15, <1>17, <2>1, <2>2 DEF OpenInv, HeapOf
<1>22. TreeInv(pr, t)
  <2> SUFFICES ASSUME NEW i \in N, i # 1 PROVE Reached(pr, t, i)
    BY <1>15, <1>17 DEF TreeInv
  <2>1. Reached(pr, s, i)
    BY <1>1, <1>2 DEF TreeInv
  <2>2. s.nodes[i].pidx \in N
    BY <1>1, <1>2, <2>1, PoolTypes DEF Reached
  <2> QED
    BY <1>15, <1>18, <2>1, <2>2 DEF Reached
<1>23. Rooted(t)
  <2> SUFFICES ASSUME NEW C, C \subseteq N, C # {}, ParentClosed(t, C) PROVE 1 \in C
    BY <1>15, <1>17 DEF Rooted
  <2>1. ParentClosed(s, C)
    BY <1>15, <1>18 DEF ParentClosed
  <2> QED
    BY <1>1, <1>2, <2>1 DEF Rooted
<1>24. NearInv(t)
  <2>1. \A i \in N : Nearness(t, i) = Nearness(s, i)
    BY <1>15, <1>18 DEF Nearness
  <2>2. s.best \in N
    BY <1>1, <1>2 DEF PoolInv
  <2> QED
    BY <1>1, <1>2, <1>15, <1>17, <2>1, <2>2 DEF NearInv
<1>25. Grown(s, t)
  <2>1. (\A x \in Nat : x <= x) /\ Len(s.nodes) \in Nat
    BY <1>4
  <2>2. \A i \in N : i = b => nodes[i].flag = "closed"
    BY <1>16, <1>17
  <2>3. \A i \in N : nodes[i].total <= s.nodes[i].total
    BY <1>4, <1>18, <2>1
  <2>4. \A i \in N : ~(s.nodes[i].flag = "closed" /\ nodes[i].flag = "open")
    BY <1>18, <2>2
  <2>5. Len(s.nodes) <= Len(t.nodes)
    BY <1>15, <1>17, <2>1
  <2> QED
    BY <1>2, <1>15, <1>17, <1>18, <2>3, <2>4, <2>5 DEF Grown
<1> QED
  BY <1>2, <1>8, <1>15, <1>17, <1>18, <1>20, <1>21, <1>22, <1>23, <1>24, <1>25 DEF Sound

\* A round keeps the invariant, and closes an end only to take it as the best node.
LEMMA RoundSound ==
    ASSUME NEW pr \in ProblemType, NEW s, Sound(pr, s), Expanded(pr, s), s.open # <<>>,
           NEW t, t = Round(pr, s)
    PROVE  /\ Sound(pr, t) /\ Expanded(pr, t) /\ Grown(s, t)
           /\ AtGoal(s) => t.nodes[t.best].id = End
           /\ ~AtGoal(s) => \A i \in DOMAIN t.nodes :
                 t.nodes[i].flag = "closed" /\ t.nodes[i].id = End =>
                    i \in DOMAIN s.nodes /\ s.nodes[i].flag = "closed" /\ s.nodes[i].id = End
<1>1. PICK b : b = Head(s.open)
  OBVIOUS
<1>2. PICK u : u = Popped(s)
  OBVIOUS
<1>3. /\ Sound(pr, u) /\ Grown(s, u)
      /\ b \in DOMAIN s.nodes /\ DOMAIN u.nodes = DOMAIN s.nodes
      /\ \A i \in DOMAIN s.nodes :
            /\ u.nodes[i].id = s.nodes[i].id /\ u.nodes[i].pos = s.nodes[i].pos
            /\ i # b => u.nodes[i].flag = s.nodes[i].flag
      /\ u.best = s.best /\ u.bestCost = s.bestCost /\ u.short = s.short
  BY <1>1, <1>2, PoppedSound
<1>4. PoolInv(pr, s) /\ PoolInv(pr, u) /\ NearInv(u)
  BY <1>3 DEF Sound
<1>5. CASE AtGoal(s)
  <2>1. t = [u EXCEPT !.best = b] /\ s.nodes[b].id = End
    BY <1>1, <1>2, <1>5 DEF Round, AtGoal
  <2>2. u \in [nodes : Seq(NodeType), open : Seq(Nat), best : Nat, bestCost : Nat, short : BOOLEAN]
        /\ b \in Nat
    BY <1>3, <1>4, PoolTypes DEF PoolInv, SearchType
  <2>3. /\ t.nodes = u.nodes /\ t.open = u.open /\ t.best = b /\ t.bestCost = u.bestCost
        /\ t.short = u.short /\ t \in SearchType
    BY <2>1, <2>2 DEF SearchType
  <2>4. PoolInv(pr, t)
    BY <1>3, <1>4, <2>3 DEF PoolInv
  <2>5. OpenInv(t) /\ TreeInv(pr, t) /\ Rooted(t)
    BY <1>3, <2>3 DEF Sound, OpenInv, TreeInv, Reached, Rooted, ParentClosed
  <2>6. NearInv(t)
    <3>1. \A i \in DOMAIN u.nodes : Nearness(t, i) = Nearness(u, i)
      BY <2>3 DEF Nearness
    <3>2. u.bestCost = Nearness(u, b)
      <4>1. CASE b = 1
        <5>1. Start = End
          BY <1>3, <1>4, <2>1, <4>1 DEF PoolInv
        <5>2. Len(u.nodes) = 1 /\ u.best \in DOMAIN u.nodes
          BY <1>4, <5>1 DEF PoolInv
        <5>3. DOMAIN u.nodes = 1..1
          BY <1>4, <5>2, PoolTypes
        <5>4. u.best = 1
          BY <5>2, <5>3
        <5> QED
          BY <1>4, <4>1, <5>4 DEF NearInv
      <4>2. CASE b # 1
        <5>1. Nearness(u, b) = 0
          BY <1>3, <2>1, <4>2 DEF Nearness, Heuristic
        <5>2. u.bestCost <= 0 /\ u.bestCost \in Nat
          BY <1>3, <1>4, <2>2, <5>1 DEF NearInv
        <5> QED
          BY <5>1, <5>2
      <4> QED
        BY <4>1, <4>2
    <3> QED
      BY <1>3, <1>4, <2>3, <3>1, <3>2 DEF NearInv
  <2>7. Expanded(pr, t)
    BY <1>3, <2>1, <2>3 DEF Expanded, Leads
  <2>8. Grown(s, t)
    BY <1>3, <2>3 DEF Grown
  <2>9. t.nodes[t.best].id = End
    BY <1>3, <2>1, <2>3
  <2> QED
    BY <1>5, <2>4, <2>5, <2>6, <2>7, <2>8, <2>9 DEF Sound
<1>6. CASE ~AtGoal(s)
  <2>1. PICK links : links = Links(pr.graph, s.nodes[b].id)
    OBVIOUS
  <2>2. t = Expand(pr, u, b, links) /\ s.nodes[b].id # End
    BY <1>1, <1>2, <1>6, <2>1 DEF Round, AtGoal
  <2>3. Start # End
    <3> SUFFICES ASSUME Start = End PROVE FALSE
      OBVIOUS
    <3>1. Len(s.nodes) = 1 /\ s.nodes[1].id = Start
      BY <1>4 DEF PoolInv
    <3>2. DOMAIN s.nodes = 1..1
      BY <1>4, <3>1, PoolTypes
    <3>3. b = 1
      BY <1>3, <3>2
    <3> QED
      BY <2>2, <3>1, <3>3
  <2>4. b \in DOMAIN u.nodes /\ links = Links(pr.graph, u.nodes[b].id)
    BY <1>3, <2>1
  <2>5. /\ Sound(pr, t) /\ Grown(u, t) /\ NoneClosed(u, t)
        /\ \A l \in Range(links) : Done(l, t)
    BY <1>3, <2>2, <2>3, <2>4, ExpandSound
  <2>6. PoolInv(pr, t)
    BY <2>5 DEF Sound
  <2>7. Grown(s, t)
    BY <1>3, <1>4, <2>5, <2>6, GrownTransitive
  <2>8. Expanded(pr, t)
    <3> SUFFICES ASSUME ~t.short, NEW i \in DOMAIN t.nodes,
                        t.nodes[i].flag = "closed", t.nodes[i].id # End,
                        NEW l \in Range(Links(pr.graph, t.nodes[i].id)), l.to \in Passes
                 PROVE  Leads(t, l.to)
      BY DEF Expanded
    <3>1. i \in DOMAIN u.nodes /\ u.nodes[i].flag = "closed" /\ u.nodes[i].id = t.nodes[i].id
      BY <2>5 DEF NoneClosed
    <3>2. i \in DOMAIN s.nodes /\ s.nodes[i].id = t.nodes[i].id
      BY <1>3, <3>1
    <3>3. CASE i = b
      <4>1. l \in Range(links)
        BY <2>1, <3>2, <3>3
      <4> QED
        BY <2>5, <4>1 DEF Done
    <3>4. CASE i # b
      <4>1. s.nodes[i].flag = "closed" /\ ~s.short
        BY <1>3, <2>7, <3>1, <3>2, <3>4 DEF Grown
      <4>2. Leads(s, l.to)
        BY <3>2, <4>1 DEF Expanded
      <4> QED
        BY <2>7, <4>2 DEF Leads, Grown
    <3> QED
      BY <3>3, <3>4
  <2>9. ASSUME NEW i \in DOMAIN t.nodes, t.nodes[i].flag = "closed", t.nodes[i].id = End
        PROVE  i \in DOMAIN s.nodes /\ s.nodes[i].flag = "closed" /\ s.nodes[i].id = End
    <3>1. i \in DOMAIN u.nodes /\ u.nodes[i].flag = "closed" /\ u.nodes[i].id = End
      BY <2>5, <2>9 DEF NoneClosed
    <3>2. i # b
      BY <1>3, <2>2, <3>1
    <3> QED
      BY <1>3, <3>1, <3>2
  <2> QED
    BY <1>6, <2>5, <2>7, <2>8, <2>9
<1> QED
  BY <1>5, <1>6

----------------------------------------------------------------------------
(* The invariant holds *)

\* So it does for a search that has just begun.
LEMMA StartSound ==
    ASSUME NEW pr \in ProblemType
    PROVE  /\ Sound(pr, Started) /\ Expanded(pr, Started)
           /\ \A i \in DOMAIN Started.nodes : Started.nodes[i].flag = "open"
<1>1. PICK h : h = HScale * Dist(StartPos, EndPos)
  OBVIOUS
<1>2. h \in Nat
  BY <1>1, Measures, NatProduct, SearchAssumption
<1>3. PICK node : node = [id |-> Start, state |-> 0, pos |-> StartPos, pidx |-> 0,
                          cost |-> 0, total |-> h, flag |-> "open"]
  OBVIOUS
<1>4. node \in NodeType
  BY <1>2, <1>3, SearchAssumption DEF NodeType
<1>5. PICK s : s = Started
  OBVIOUS
<1>6. s = [nodes |-> <<node>>, open |-> <<1>>, best |-> 1, bestCost |-> h, short |-> FALSE]
  BY <1>1, <1>3, <1>5 DEF Started
<1>7. /\ s.nodes = <<node>> /\ s.open = <<1>> /\ s.best = 1 /\ s.bestCost = h /\ s.short = FALSE
  BY <1>6
<1>8. s.nodes \in Seq(NodeType) /\ Len(s.nodes) = 1 /\ DOMAIN s.nodes = {1} /\ s.nodes[1] = node
  BY <1>4, <1>7
<1>9. s \in SearchType
  <2>1. <<1>> \in Seq(Nat)
    OBVIOUS
  <2> QED
    BY <1>2, <1>6, <1>7, <1>8, <2>1 DEF SearchType
<1>10. PoolInv(pr, s)
  <2>1. pr.maxNodes \in Nat \ {0}
    BY SearchAssumption DEF ProblemType
  <2>2. 1 \in 1..pr.maxNodes
    BY <2>1
  <2> QED
    BY <1>1, <1>3, <1>7, <1>8, <1>9, <2>2 DEF PoolInv
<1>11. OpenInv(s)
  <2>1. s.open \in Seq({1}) /\ Len(s.open) = 1 /\ DOMAIN s.open = {1} /\ s.open[1] = 1
    BY <1>7
  <2>2. OpenNodes(s.nodes) = {1}
    BY <1>3, <1>8 DEF OpenNodes
  <2>3. HeapOrdered(Totals(s.nodes), s.open)
    BY <2>1 DEF HeapOrdered
  <2>4. IsInjective(s.open) /\ Range(s.open) = {1}
    BY <2>1 DEF IsInjective, Range
  <2> QED
    BY <1>8, <2>1, <2>2, <2>3, <2>4 DEF OpenInv
<1>12. TreeInv(pr, s)
  BY <1>8 DEF TreeInv
<1>13. Rooted(s)
  BY <1>8 DEF Rooted
<1>14. NearInv(s)
  <2>1. Nearness(s, 1) = h /\ h <= h
    BY <1>1, <1>2 DEF Nearness
  <2> QED
    BY <1>7, <1>8, <2>1 DEF NearInv
<1>15. Expanded(pr, s) /\ \A i \in DOMAIN s.nodes : s.nodes[i].flag = "open"
  BY <1>3, <1>8 DEF Expanded
<1> QED
  BY <1>5, <1>10, <1>11, <1>12, <1>13, <1>14, <1>15 DEF Sound

\* Initially.
LEMMA InvInit == Init => SearchInv
<1> SUFFICES ASSUME Init PROVE SearchInv
  OBVIOUS
<1>1. EndInv
  BY DEF Init, EndInv, NoCall
<1> QED
  BY <1>1 DEF Init, SearchInv, Idle, NoCall

\* And after each step.
LEMMA InvNext == SearchInv /\ [Next]_vars => SearchInv'
<1> SUFFICES ASSUME SearchInv, [Next]_vars PROVE SearchInv'
  OBVIOUS
<1>1. /\ problem \in ProblemType /\ err \in {"none", "busy", "nil", "nodes"}
      /\ left \in Nat \cup {NoCall} /\ rounds \in Nat
      /\ err = "none" => search = Idle
      /\ err # "none" => Sound(problem, search) /\ Expanded(problem, search)
      /\ EndInv
  BY DEF SearchInv, ProblemType
<1>2. /\ err \in {"none", "nil"} => left = NoCall
      /\ \A i \in DOMAIN search.nodes :
            search.nodes[i].flag = "closed" /\ search.nodes[i].id = End =>
                err = "nil" /\ search.nodes[search.best].id = End
      /\ err = "nil" => search.nodes[search.best].id = End \/ search.open = <<>>
  BY <1>1 DEF EndInv
<1> DEFINE Good == /\ problem' = problem /\ err' \in {"none", "busy", "nil", "nodes"}
                   /\ left' \in Nat \cup {NoCall} /\ rounds' \in Nat
                   /\ err' = "none" => search' = Idle
                   /\ err' # "none" => Sound(problem, search') /\ Expanded(problem, search')
                   /\ err' \in {"none", "nil"} => left' = NoCall
                   /\ \A i \in DOMAIN search'.nodes :
                         search'.nodes[i].flag = "closed" /\ search'.nodes[i].id = End =>
                             err' = "nil" /\ search'.nodes[search'.best].id = End
                   /\ err' = "nil" =>
                         search'.nodes[search'.best].id = End \/ search'.open = <<>>
<1>3. SUFFICES Good
  BY <1>1 DEF SearchInv, EndInv, ProblemType, NoCall, Idle, Sound, PoolInv, OpenInv, TreeInv,
     Reached, Rooted, NearInv, Expanded, Leads, OpenNodes, ParentClosed, Nearness
<1>4. CASE FindPathSliced
  <2>1. /\ problem' = problem /\ search' = Started /\ err' = "busy" /\ left' = left
        /\ rounds' = 0
    BY <1>4 DEF FindPathSliced
  <2> QED
    BY <1>1, <2>1, StartSound
<1>5. ASSUME NEW n \in Budgets, UpdateSlicedPath(n) PROVE Good
  <2>1. /\ problem' = problem /\ search' = search /\ err' = err /\ err = "busy" /\ left' = n
        /\ n \in Nat /\ rounds' = rounds
    BY <1>5, SearchAssumption DEF UpdateSlicedPath
  <2> QED
    BY <1>1, <1>2, <2>1
<1>6. CASE Iterate
  <2>1. /\ problem' = problem /\ search' = Round(problem, search) /\ search.open # <<>>
        /\ err' = IF AtGoal(search) THEN "nil" ELSE IF search'.short THEN "nodes" ELSE err
        /\ left' = IF AtGoal(search) THEN NoCall ELSE left - 1
        /\ left > 0 /\ rounds' = rounds + 1
    BY <1>6 DEF Iterate
  <2>2. left \in Nat \ {0} /\ left # NoCall /\ err # "none" /\ err # "nil"
    BY <1>1, <1>2, <2>1 DEF NoCall
  <2>3. /\ Sound(problem, search') /\ Expanded(problem, search')
        /\ AtGoal(search) => search'.nodes[search'.best].id = End
        /\ ~AtGoal(search) => \A i \in DOMAIN search'.nodes :
              search'.nodes[i].flag = "closed" /\ search'.nodes[i].id = End =>
                 i \in DOMAIN search.nodes /\ search.nodes[i].flag = "closed" /\ search.nodes[i].id = End
    BY <1>1, <2>1, <2>2, RoundSound
  <2>4. CASE AtGoal(search)
    <3>1. rounds' \in Nat
      BY <1>1, <2>1
    <3> QED
      BY <1>1, <2>1, <2>3, <2>4, <3>1
  <2>5. CASE ~AtGoal(search)
    <3>1. err' \in {"busy", "nodes"} /\ left' \in Nat /\ rounds' \in Nat
      BY <1>1, <2>1, <2>2, <2>5
    <3>2. ~ \E i \in DOMAIN search'.nodes :
             search'.nodes[i].flag = "closed" /\ search'.nodes[i].id = End
      BY <1>2, <2>2, <2>3, <2>5
    <3> QED
      BY <2>1, <2>3, <3>1, <3>2
  <2> QED
    BY <2>4, <2>5
<1>7. CASE Return
  <2>1. /\ problem' = problem /\ search' = search /\ left' = NoCall /\ left # NoCall
        /\ err' = IF search.open = <<>> THEN "nil" ELSE err
        /\ rounds' = rounds
    BY <1>7 DEF Return, Drained
  <2>2. err # "none" /\ err # "nil"
    BY <1>2, <2>1
  <2> QED
    BY <1>1, <1>2, <2>1, <2>2
<1>8. CASE UNCHANGED vars
  BY <1>1, <1>2, <1>8 DEF vars
<1> QED
  BY <1>4, <1>5, <1>6, <1>7, <1>8 DEF Next

\* In every reachable state.
LEMMA SearchInvariant == Spec => []SearchInv
<1> QED
  BY InvInit, InvNext, PTL DEF Spec

----------------------------------------------------------------------------
(* Theorems *)

\* The pool stays within maxNodes, and node, open list and error have their
\* types (FindPathSliced, UpdateSlicedPath).
THEOREM SearchTypes == Spec => []TypeOK
<1>1. SearchInv => TypeOK
  <2> SUFFICES ASSUME SearchInv PROVE TypeOK
    OBVIOUS
  <2>1. problem \in ProblemType /\ problem.maxNodes \in PoolSizes
    BY DEF SearchInv, ProblemType
  <2>2. CASE err = "none"
    <3>1. search.nodes = <<>> /\ search.open = <<>> /\ search.best = 0
      BY <2>2 DEF SearchInv, Idle
    <3>2. problem.maxNodes \in Nat
      BY <2>1, SearchAssumption
    <3> QED
      BY <2>1, <3>1, <3>2 DEF SearchInv, TypeOK
  <2>3. CASE err # "none"
    <3>1. PoolInv(problem, search) /\ OpenInv(search)
      BY <2>3 DEF SearchInv, Sound
    <3>2. PICK len : len = Len(search.nodes)
      OBVIOUS
    <3>3. PICK max : max = problem.maxNodes
      OBVIOUS
    <3>4. len \in 1..max /\ max \in Nat /\ DOMAIN search.nodes = 1..len
      BY <2>1, <3>1, <3>2, <3>3, PoolTypes, SearchAssumption DEF PoolInv
    <3>5. ASSUME NEW i \in 1..len PROVE search.nodes[i] \in Node
      <4>1. search.nodes[i] \in NodeType /\ search.nodes[i].pidx \in 0..len
        BY <2>1, <3>1, <3>2, <3>4, PoolTypes DEF PoolInv
      <4>2. search.nodes[i].pidx \in {0} \cup 1..max
        BY <3>4, <4>1
      <4> QED
        BY <3>3, <4>1, <4>2 DEF NodeType, Node, NodeIndex
    <3>6. search.best \in 0..len /\ search.open \in Seq(DOMAIN search.nodes)
      BY <3>1, <3>4 DEF PoolInv, OpenInv
    <3> QED
      BY <2>1, <3>2, <3>3, <3>4, <3>5, <3>6 DEF SearchInv, TypeOK
  <2> QED
    BY <2>2, <2>3
<1> QED
  BY <1>1, SearchInvariant, PTL

\* The open list stays a heap of exactly the nodes flagged open (NodeQueue as
\* UpdateSlicedPath uses it).
THEOREM OpenListStaysExact == Spec => []OpenListExact
<1>1. SearchInv => OpenListExact
  <2>1. CASE err = "none"
    BY <2>1 DEF SearchInv, Idle, OpenListExact, HeapOrdered, IsInjective, Range
  <2>2. CASE err # "none"
    BY <2>2 DEF SearchInv, Sound, OpenInv, OpenNodes, OpenListExact
  <2> QED
    BY <2>1, <2>2
<1> QED
  BY <1>1, SearchInvariant, PTL

\* LastBestNode is a node that is nearest to the end among all ever reached
\* (UpdateSlicedPath).
THEOREM BestStaysNearest == Spec => []BestIsNearest
<1>1. SearchInv => BestIsNearest
  <2>1. CASE err = "none"
    BY <2>1 DEF SearchInv, Idle, BestIsNearest
  <2>2. CASE err # "none"
    BY <2>2 DEF SearchInv, Sound, NearInv, BestIsNearest
  <2> QED
    BY <2>1, <2>2
<1> QED
  BY <1>1, SearchInvariant, PTL

\* No node ever gets dearer, and a closed one is opened again only if it gets
\* cheaper (UpdateSlicedPath).
THEOREM NodesOnlyGetCheaper == Spec => ReopenedCheaper
<1>1. SearchInv /\ [Next]_vars =>
        [~FindPathSliced => \A i \in DOMAIN search.nodes :
             LET old == search.nodes[i]
                 new == search'.nodes[i] IN
             /\ new.total <= old.total
             /\ old.flag = "closed" /\ new.flag = "open" => new.total < old.total]_vars
  <2> SUFFICES ASSUME SearchInv, Next, ~FindPathSliced, NEW i \in DOMAIN search.nodes
               PROVE  /\ search'.nodes[i].total <= search.nodes[i].total
                      /\ search.nodes[i].flag = "closed" /\ search'.nodes[i].flag = "open" =>
                            search'.nodes[i].total < search.nodes[i].total
    OBVIOUS
  <2>1. err # "none"
    BY DEF SearchInv, Idle
  <2>2. /\ problem \in ProblemType /\ Sound(problem, search) /\ Expanded(problem, search)
    BY <2>1 DEF SearchInv, ProblemType
  <2>3. CASE Iterate
    <3>1. search.open # <<>> /\ search' = Round(problem, search)
      BY <2>3 DEF Iterate
    <3>2. Grown(search, search')
      BY <2>2, <3>1, RoundSound
    <3> QED
      BY <3>2 DEF Grown
  <2>4. CASE ~Iterate
    <3>1. search' = search
      BY <2>4 DEF Next, UpdateSlicedPath, Return
    <3>2. search.nodes[i].total \in Nat
      BY <2>2, PoolTypes DEF Sound
    <3>3. \A x \in Nat : x <= x
      OBVIOUS
    <3> QED
      BY <3>1, <3>2, <3>3
  <2> QED
    BY <2>3, <2>4
<1> QED
  BY <1>1, SearchInvariant, PTL DEF Spec, ReopenedCheaper

\* The way up from any node ends at the start.
LEMMA PathLemma ==
    ASSUME NEW pr \in ProblemType, NEW s, PoolInv(pr, s), Rooted(s), TreeInv(pr, s),
           NEW i \in DOMAIN s.nodes
    PROVE  Last(PathIndices(s, i)) = 1
<1>1. PICK n : n = Len(s.nodes)
  OBVIOUS
<1>2. /\ n \in Nat \ {0} /\ DOMAIN s.nodes = 1..n /\ i \in 1..n
      /\ \A j \in 1..n : s.nodes[j].pidx \in 0..n
      /\ s.nodes[1].pidx = 0
      /\ \A j \in 1..n : j # 1 => s.nodes[j].pidx # 0
  <2>1. n \in Nat \ {0} /\ DOMAIN s.nodes = 1..n
    BY <1>1, PoolTypes
  <2> QED
    BY <1>1, <2>1 DEF PoolInv, TreeInv, Reached
<1> DEFINE parent == [j \in 0..n |-> IF j = 0 THEN 0 ELSE s.nodes[j].pidx]
           step == [k \in 1..n |-> parent]
           Eq(f) == f = [k \in 0..n |-> IF k = 0 THEN i
                                        ELSE IF f[k - 1] = 0 THEN 0 ELSE s.nodes[f[k - 1]].pidx]
           Up == CHOOSE f : Eq(f)
           steps == {k \in 0..n : Up[k] # 0}
<1>3. PathIndices(s, i) = [k \in 1..(Max(steps) + 1) |-> Up[k - 1]]
  BY <1>1 DEF PathIndices
<1>4. parent \in [0..n -> 0..n] /\ \A j \in 0..n : j # 0 => j \in 1..n /\ parent[j] = s.nodes[j].pidx
  BY <1>2
<1>5. parent[0] = 0
  BY <1>2
<1> HIDE DEF parent
<1>6. \E f : Eq(f)
  <2>1. step \in [1..n -> [0..n -> 0..n]] /\ i \in 0..n /\ n \in Nat
    BY <1>2, <1>4
  <2> HIDE DEF step
  <2>2. PICK f \in [0..n -> 0..n] : IsRun(f, n, i, step)
    BY <2>1, Recursion
  <2>3. f[0] = i /\ \A k \in 1..n : k - 1 \in 0..n /\ f[k - 1] \in 0..n /\ f[k] = parent[f[k - 1]]
    <3>1. \A k \in 1..n : k - 1 \in 0..n
      BY <1>2
    <3>2. \A k \in 1..n : step[k] = parent
      BY DEF step
    <3> QED
      BY <2>2, <3>1, <3>2 DEF IsRun
  <2>4. \A k \in 1..n : f[k] = IF f[k - 1] = 0 THEN 0 ELSE s.nodes[f[k - 1]].pidx
    BY <1>4, <1>5, <2>3
  <2>5. \A k \in 0..n : k # 0 => k \in 1..n
    BY <1>2
  <2>6. Eq(f)
    BY <2>3, <2>4, <2>5
  <2> QED
    BY <2>6
<1>7. Eq(Up)
  <2> HIDE DEF Eq
  <2> QED
    BY <1>6
<1> HIDE DEF Up
<1>8. /\ Up[0] = i
      /\ \A k \in 1..n : Up[k] = IF Up[k - 1] = 0 THEN 0 ELSE s.nodes[Up[k - 1]].pidx
  <2>1. 0 \in 0..n /\ \A k \in 1..n : k \in 0..n /\ k # 0
    BY <1>2
  <2> QED
    BY <1>7, <2>1
<1> HIDE DEF Eq
\* All steps lead to nodes or, past the start, to 0.
<1>9. \A k \in 0..n : Up[k] \in 0..n
  <2> DEFINE Bad == {k \in 0..n : Up[k] \notin 0..n}
  <2> SUFFICES ASSUME Bad # {} PROVE FALSE
    OBVIOUS
  <2>1. PICK k \in Bad : \A j \in Bad : k <= j
    <3>1. Bad \subseteq Nat
      OBVIOUS
    <3> HIDE DEF Bad
    <3> QED
      BY <3>1, Smallest
  <2>2. k \in 0..n /\ Up[k] \notin 0..n /\ k # 0
    BY <1>2, <1>8
  <2>3. k \in 1..n /\ k - 1 \in 0..n /\ k - 1 < k
    BY <1>2, <2>2
  <2>4. Up[k - 1] \in 0..n
    BY <2>1, <2>3
  <2>5. Up[k - 1] # 0 => Up[k - 1] \in 1..n
    BY <1>2, <2>4
  <2>6. 0 \in 0..n
    BY <1>2
  <2>7. Up[k] \in 0..n
    BY <1>2, <1>8, <2>3, <2>5, <2>6
  <2> QED
    BY <2>2, <2>7
<1>10. /\ 0 \in steps /\ steps \subseteq Nat /\ \A k \in steps : k \in 0..n /\ k <= n
  <2>1. 0 \in 0..n /\ i # 0
    BY <1>2
  <2> QED
    BY <1>2, <1>8, <2>1
<1>11. PICK m : m = Max(steps)
  OBVIOUS
<1>12. m \in steps /\ (\A k \in steps : k <= m) /\ m \in 0..n /\ Up[m] # 0
  <2>1. m \in steps /\ \A k \in steps : k <= m
    <3> HIDE DEF steps
    <3> QED
      BY <1>2, <1>10, <1>11, Largest
  <2> QED
    BY <2>1
<1>13. Up[m] \in 1..n
  BY <1>2, <1>9, <1>12
<1>14. Last(PathIndices(s, i)) = Up[m]
  <2>1. PICK path : path = PathIndices(s, i)
    OBVIOUS
  <2>2. path = [k \in 1..(m + 1) |-> Up[k - 1]]
    BY <1>3, <1>11, <2>1
  <2>3. m + 1 \in Nat /\ m + 1 \in 1..(m + 1) /\ (m + 1) - 1 = m
    BY <1>2, <1>12
  <2>4. Len(path) = m + 1
    <3>1. \A k \in 1..(m + 1) : Up[k - 1] \in 0..n
      <4>1. \A k \in 1..(m + 1) : k - 1 \in 0..n
        BY <1>2, <1>12
      <4> QED
        BY <1>9, <4>1
    <3>2. path \in [1..(m + 1) -> 0..n]
      BY <2>2, <3>1
    <3>3. path \in Seq(0..n)
      BY <2>3, <3>2, SeqDef
    <3>4. DOMAIN path = 1..(m + 1)
      BY <3>2
    <3> QED
      BY <2>3, <3>3, <3>4, LenProperties
  <2> QED
    BY <2>1, <2>2, <2>3, <2>4 DEF Last
<1>15. CASE m # n
  <2>1. m + 1 \in 1..n /\ (m + 1) - 1 = m /\ m + 1 \in 0..n /\ ~(m + 1 <= m)
    BY <1>2, <1>12, <1>15
  <2>2. Up[m + 1] = 0
    BY <1>12, <2>1
  <2>3. Up[m + 1] = s.nodes[Up[m]].pidx
    BY <1>8, <1>12, <2>1
  <2> QED
    BY <1>2, <1>13, <1>14, <2>2, <2>3
\* The way up cannot take more steps than there are nodes.
<1>16. CASE m = n
  <2>1. \A k \in 0..n : Up[k] # 0
    <3> DEFINE Z == {k \in 0..n : Up[k] = 0}
    <3> SUFFICES ASSUME Z # {} PROVE FALSE
      OBVIOUS
    <3>1. PICK k : k = Max(Z)
      OBVIOUS
    <3>2. k \in Z /\ \A j \in Z : j <= k
      <4>1. Z \subseteq Nat /\ \A j \in Z : j <= n
        BY <1>2
      <4> HIDE DEF Z
      <4> QED
        BY <1>2, <3>1, <4>1, Largest
    <3>3. k \in 0..n /\ Up[k] = 0 /\ k # n
      BY <1>12, <1>16, <3>2
    <3>4. k + 1 \in 1..n /\ k + 1 \in 0..n /\ (k + 1) - 1 = k /\ ~(k + 1 <= k)
      BY <1>2, <3>3
    <3>5. Up[k + 1] = 0
      BY <1>8, <3>3, <3>4
    <3> QED
      BY <3>2, <3>4, <3>5
  <2>2. \A k \in 0..n : Up[k] \in 1..n
    BY <1>2, <1>9, <2>1
  <2>3. Up \in [0..n -> 1..n]
    <3>1. DOMAIN Up = 0..n /\ Up = [k \in 0..n |-> Up[k]]
      BY <1>7 DEF Eq
    <3> QED
      BY <2>2, <3>1
  <2>4. PICK a \in 0..n, c \in 0..n : a # c /\ Up[a] = Up[c]
    <3>1. IsFiniteSet(0..n) /\ IsFiniteSet(1..n)
      BY <1>2, FS_Interval
    <3>2. Cardinality(0..n) = n + 1 /\ Cardinality(1..n) = n
      <4>1. Cardinality(0..n) = IF 0 > n THEN 0 ELSE n - 0 + 1
        BY <1>2, FS_Interval
      <4>2. Cardinality(1..n) = IF 1 > n THEN 0 ELSE n - 1 + 1
        BY <1>2, FS_Interval
      <4> QED
        BY <1>2, <4>1, <4>2
    <3>3. Cardinality(1..n) < Cardinality(0..n)
      BY <1>2, <3>2
    <3> QED
      BY <2>3, <3>1, <3>3, FS_PigeonHole
  <2>5. PICK p \in 0..n, q \in 0..n : p < q /\ Up[p] = Up[q]
    <3>1. CASE a < c
      BY <2>4, <3>1
    <3>2. CASE ~(a < c)
      <4>1. c < a
        BY <1>2, <2>4, <3>2
      <4> QED
        BY <2>4, <4>1
    <3> QED
      BY <3>1, <3>2
  <2> DEFINE C == {Up[k] : k \in p..(q - 1)}
  <2>6. \A k \in p..(q - 1) : /\ k \in 0..n /\ k + 1 \in 1..n /\ (k + 1) - 1 = k /\ k + 1 \in 0..n
                              /\ k + 1 # q => k + 1 \in p..(q - 1)
    BY <1>2, <2>5
  <2>7. p \in p..(q - 1)
    BY <1>2, <2>5
  <2>8. \A k \in p..(q - 1) : s.nodes[Up[k]].pidx = Up[k + 1] /\ Up[k] \in 1..n /\ Up[k + 1] # 0
    BY <1>8, <2>1, <2>2, <2>6
  <2>9. \A k \in p..(q - 1) : Up[k + 1] \in C
    BY <2>5, <2>6, <2>7
  <2>10. ParentClosed(s, C) /\ C \subseteq 1..n /\ C # {}
    BY <2>7, <2>8, <2>9 DEF ParentClosed
  <2>11. 1 \in C
    <3> HIDE DEF C
    <3> QED
      BY <1>2, <2>10 DEF Rooted
  <2>12. PICK k \in p..(q - 1) : Up[k] = 1
    BY <2>11
  <2> QED
    BY <1>2, <2>8, <2>12
<1> QED
  BY <1>15, <1>16

\* The parents of every node lead to the start along links that pass the
\* filter, and none costs less than the way through its parent
\* (UpdateSlicedPath, getPathToNode).
THEOREM PathsLeadToStart == Spec => []PathsLeadBack
<1>1. SearchInv => PathsLeadBack
  <2>1. CASE err = "none"
    BY <2>1 DEF SearchInv, Idle, PathsLeadBack
  <2>2. ASSUME SearchInv, err # "none", NEW i \in DOMAIN search.nodes
        PROVE  /\ Last(PathIndices(search, i)) = 1
               /\ search.nodes[i].pidx = 0 <=> i = 1
               /\ i # 1 => Reached(problem, search, i)
    <3>1. /\ problem \in ProblemType /\ PoolInv(problem, search)
          /\ TreeInv(problem, search) /\ Rooted(search)
      BY <2>2 DEF SearchInv, Sound, ProblemType
    <3>2. Last(PathIndices(search, i)) = 1
      BY <3>1, PathLemma
    <3>3. i # 1 => Reached(problem, search, i)
      BY <3>1 DEF TreeInv
    <3> QED
      BY <3>1, <3>2, <3>3 DEF Reached, PoolInv
  <2> QED
    BY <2>1, <2>2 DEF PathsLeadBack, Reached
<1> QED
  BY <1>1, SearchInvariant, PTL

\* Every node's polygon is one that links lead to from the start.
LEMMA NodesReachable ==
    ASSUME problem \in ProblemType, Sound(problem, search)
    PROVE  \A i \in DOMAIN search.nodes : search.nodes[i].id \in Reachable
<1>1. PoolInv(problem, search) /\ TreeInv(problem, search) /\ Rooted(search)
  BY DEF Sound
<1> DEFINE C == {i \in DOMAIN search.nodes : search.nodes[i].id \notin Reachable}
<1>2. ParentClosed(search, C)
  <2> SUFFICES ASSUME NEW i \in C, search.nodes[i].pidx # 0 PROVE search.nodes[i].pidx \in C
    BY DEF ParentClosed
  <2>1. PICK p : p = search.nodes[i].pidx
    OBVIOUS
  <2>2. i \in DOMAIN search.nodes /\ p \in DOMAIN search.nodes /\ i # 1
        /\ search.nodes[i].id \in Poly
    BY <1>1, <2>1, PoolTypes DEF PoolInv
  <2>3. /\ search.nodes[i].id \in Passes
        /\ \E l \in Range(Links(problem.graph, search.nodes[p].id)) : l.to = search.nodes[i].id
    BY <1>1, <2>1, <2>2 DEF TreeInv, Reached
  <2>4. ASSUME search.nodes[p].id \in Reachable PROVE search.nodes[i].id \in Reachable
    BY <2>2, <2>3, <2>4 DEF Reachable
  <2> QED
    BY <2>1, <2>2, <2>4
<1>3. 1 \notin C
  BY <1>1, SearchAssumption DEF PoolInv, Reachable
<1>4. C = {}
  <2> HIDE DEF C
  <2>1. C \subseteq DOMAIN search.nodes
    BY DEF C
  <2> QED
    BY <1>1, <1>2, <1>3, <2>1 DEF Rooted
<1> QED
  BY <1>4

\* A search that was never short of nodes finds the end if and only if links
\* that pass the filter lead there (UpdateSlicedPath).
THEOREM EndIsFound == Spec => []FindsWhatIsThere
<1>1. SearchInv => FindsWhatIsThere
  <2> SUFFICES ASSUME SearchInv, Finished, err = "nil", ~search.short
               PROVE  search.nodes[search.best].id = End <=> End \in Reachable
    BY DEF FindsWhatIsThere
  <2>1. /\ problem \in ProblemType /\ Sound(problem, search) /\ Expanded(problem, search)
        /\ \A i \in DOMAIN search.nodes :
              search.nodes[i].flag = "closed" /\ search.nodes[i].id = End =>
                  search.nodes[search.best].id = End
        /\ search.nodes[search.best].id = End \/ search.open = <<>>
    BY DEF SearchInv, EndInv, ProblemType
  <2>2. PoolInv(problem, search) /\ OpenInv(search)
    BY <2>1 DEF Sound
  <2>3. ASSUME search.nodes[search.best].id = End PROVE End \in Reachable
    BY <2>1, <2>2, <2>3, NodesReachable DEF PoolInv
  <2>4. ASSUME End \in Reachable, search.nodes[search.best].id # End PROVE FALSE
    <3>1. Range(search.open) = {}
      BY <2>1, <2>4 DEF Range
    <3>2. \A i \in DOMAIN search.nodes : search.nodes[i].flag = "closed"
      BY <2>1, <2>2, <3>1, PoolTypes DEF OpenInv, OpenNodes
    <3>3. \A i \in DOMAIN search.nodes : search.nodes[i].id # End
      BY <2>1, <2>4, <3>2
    <3> DEFINE S == {search.nodes[i].id : i \in DOMAIN search.nodes}
    <3>4. Start \in S /\ S \subseteq Poly
      BY <2>1, <2>2, PoolTypes DEF PoolInv
    <3>5. ASSUME NEW q \in S, NEW l \in Range(Links(problem.graph, q)), l.to \in Passes
          PROVE  l.to \in S
      <4>1. PICK i \in DOMAIN search.nodes : q = search.nodes[i].id
        OBVIOUS
      <4>2. Leads(search, l.to)
        BY <2>1, <3>2, <3>3, <3>5, <4>1 DEF Expanded
      <4> QED
        BY <4>2 DEF Leads
    <3>6. End \in S
      <4> HIDE DEF S
      <4> QED
        BY <2>4, <3>4, <3>5 DEF Reachable
    <3> QED
      BY <3>3, <3>6
  <2> QED
    BY <2>3, <2>4
<1> QED
  BY <1>1, SearchInvariant, PTL

----------------------------------------------------------------------------
(* Slices *)

\* The states of FindPath's loop.
LoopType(pr) == {w \in [search : SearchType, goal : BOOLEAN] :
                    Sound(pr, w.search) /\ Expanded(pr, w.search)}

\* A pass leads from one to one.
LEMMA PassType ==
    ASSUME NEW pr \in ProblemType, NEW w \in LoopType(pr)
    PROVE  Pass(pr, w) \in LoopType(pr)
<1>1. CASE Ended(w)
  BY <1>1 DEF Pass
<1>2. CASE ~Ended(w)
  <2>1. PICK t : t = Round(pr, w.search)
    OBVIOUS
  <2>2. PICK a \in BOOLEAN : a = AtGoal(w.search)
    BY DEF AtGoal
  <2>3. Pass(pr, w) = [search |-> t, goal |-> a]
    BY <1>2, <2>1, <2>2 DEF Pass
  <2>4. Sound(pr, t) /\ Expanded(pr, t)
    BY <1>2, <2>1, RoundSound DEF LoopType, Ended
  <2>5. t \in SearchType
    BY <2>4 DEF Sound, PoolInv
  <2> QED
    BY <2>3, <2>4, <2>5 DEF LoopType
<1> QED
  BY <1>1, <1>2

\* FindPath begins with Begun, and each round more is a pass.
LEMMA FindPathSteps ==
    ASSUME NEW pr \in ProblemType, NEW n \in Nat
    PROVE  FindPath(pr, 0) = Begun /\ FindPath(pr, n + 1) = Pass(pr, FindPath(pr, n))
<1> DEFINE Eq(m, f) == f = [k \in 0..m |-> IF k = 0 THEN Begun ELSE Pass(pr, f[k - 1])]
           After(m) == CHOOSE f : Eq(m, f)
<1>1. Begun \in LoopType(pr)
  <2>1. Sound(pr, Started) /\ Expanded(pr, Started)
    BY StartSound
  <2>2. Started \in SearchType
    BY <2>1 DEF Sound, PoolInv
  <2> QED
    BY <2>1, <2>2 DEF LoopType, Begun
<1>2. ASSUME NEW m \in Nat PROVE \E f : Eq(m, f)
  <2> DEFINE pass == [w \in LoopType(pr) |-> Pass(pr, w)]
             step == [k \in 1..m |-> pass]
  <2>1. pass \in [LoopType(pr) -> LoopType(pr)]
    BY PassType
  <2>2. step \in [1..m -> [LoopType(pr) -> LoopType(pr)]]
    <3> HIDE DEF pass
    <3> QED
      BY <2>1
  <2>3. \A k \in 1..m : step[k] = pass
    OBVIOUS
  <2>4. \A w \in LoopType(pr) : pass[w] = Pass(pr, w)
    OBVIOUS
  <2> HIDE DEF step, pass
  <2>5. PICK f \in [0..m -> LoopType(pr)] : IsRun(f, m, Begun, step)
    BY <1>1, <1>2, <2>2, Recursion
  <2>6. \A k \in 0..m : k # 0 => k \in 1..m /\ k - 1 \in 0..m
    BY <1>2
  <2>7. \A k \in 0..m : f[k] = IF k = 0 THEN Begun ELSE Pass(pr, f[k - 1])
    BY <2>3, <2>4, <2>5, <2>6 DEF IsRun
  <2>8. Eq(m, f)
    BY <2>7
  <2> QED
    BY <2>8
<1>3. \A m \in Nat : Eq(m, After(m))
  <2> HIDE DEF Eq
  <2> QED
    BY <1>2
<1>4. \A m \in Nat : FindPath(pr, m) = After(m)[m]
  BY DEF FindPath
<1> HIDE DEF After
<1>5. ASSUME NEW m \in Nat
      PROVE  /\ After(m)[0] = Begun
             /\ \A k \in 1..m : After(m)[k] = Pass(pr, After(m)[k - 1])
  <2>1. Eq(m, After(m))
    BY <1>3
  <2>2. 0 \in 0..m /\ \A k \in 1..m : k \in 0..m /\ k # 0
    OBVIOUS
  <2> QED
    BY <2>1, <2>2
<1> HIDE DEF Eq
\* Both runs agree as far as the shorter goes.
<1>6. After(n + 1)[n] = After(n)[n]
  <2> DEFINE T == {k \in 0..n : After(n + 1)[k] = After(n)[k]}
  <2>1. n + 1 \in Nat /\ 0 \in 0..n /\ n \in 0..n
        /\ \A k \in 1..n : k \in 1..(n + 1) /\ k \in 0..n
    OBVIOUS
  <2>2. 0 \in T
    BY <1>5, <2>1
  <2>3. ASSUME NEW k \in 1..n, k - 1 \in T PROVE k \in T
    <3>1. After(n + 1)[k] = Pass(pr, After(n + 1)[k - 1]) /\ After(n)[k] = Pass(pr, After(n)[k - 1])
      BY <1>5, <2>1
    <3> QED
      BY <2>1, <2>3, <3>1
  <2>4. 0..n \subseteq T
    <3> HIDE DEF T
    <3> QED
      BY <2>2, <2>3, UpTo
  <2> QED
    BY <2>1, <2>4
<1>7. FindPath(pr, 0) = Begun
  BY <1>4, <1>5
<1>8. FindPath(pr, n + 1) = Pass(pr, After(n + 1)[n])
  <2>1. n + 1 \in Nat /\ n + 1 \in 1..(n + 1) /\ (n + 1) - 1 = n
    OBVIOUS
  <2>2. After(n + 1)[n + 1] = Pass(pr, After(n + 1)[(n + 1) - 1])
    BY <1>5, <2>1
  <2> QED
    BY <1>4, <2>1, <2>2
<1> QED
  BY <1>4, <1>6, <1>7, <1>8

\* Where the slices are, FindPath is after as many rounds, and it is over when
\* they are.
SliceInv ==
    /\ err # "none" => FindPath(problem, rounds).search = search
    /\ err \in {"busy", "nodes"} => ~FindPath(problem, rounds).goal
    /\ err = "nil" => Ended(FindPath(problem, rounds))

\* It is inductive.
LEMMA SliceInit == Init => SliceInv
  BY DEF Init, SliceInv

LEMMA SliceNext == SearchInv /\ SliceInv /\ [Next]_vars => SliceInv'
<1> SUFFICES ASSUME SearchInv, SliceInv, [Next]_vars PROVE SliceInv'
  OBVIOUS
<1>1. problem \in ProblemType /\ rounds \in Nat
  BY DEF SearchInv, ProblemType
<1>2. CASE FindPathSliced
  <2>1. /\ problem' = problem /\ search' = Started /\ err' = "busy" /\ rounds' = 0
    BY <1>2 DEF FindPathSliced
  <2>2. FindPath(problem', rounds') = Begun
    BY <1>1, <2>1, FindPathSteps
  <2> QED
    BY <2>1, <2>2 DEF SliceInv, Begun
<1>3. ASSUME NEW n \in Budgets, UpdateSlicedPath(n) PROVE SliceInv'
  BY <1>3 DEF UpdateSlicedPath, SliceInv
<1>4. CASE Iterate
  <2>1. /\ problem' = problem /\ search' = Round(problem, search) /\ search.open # <<>>
        /\ err' = IF AtGoal(search) THEN "nil" ELSE IF search'.short THEN "nodes" ELSE err
        /\ rounds' = rounds + 1 /\ left > 0
    BY <1>4 DEF Iterate
  <2>2. err \in {"busy", "nodes"}
    BY <2>1 DEF SearchInv, EndInv, NoCall
  <2>3. PICK loop : loop = FindPath(problem, rounds)
    OBVIOUS
  <2>4. loop.search = search /\ ~loop.goal /\ ~Ended(loop)
    BY <2>1, <2>2, <2>3 DEF SliceInv, Ended
  <2>5. FindPath(problem', rounds') = Pass(problem, loop)
    BY <1>1, <2>1, <2>3, FindPathSteps
  <2>6. FindPath(problem', rounds') = [search |-> search', goal |-> AtGoal(search)]
    BY <2>1, <2>4, <2>5 DEF Pass
  <2> QED
    BY <2>1, <2>2, <2>6 DEF SliceInv, Ended
<1>5. CASE Return
  <2>1. /\ problem' = problem /\ search' = search /\ rounds' = rounds /\ left # NoCall
        /\ err' = IF search.open = <<>> THEN "nil" ELSE err
    BY <1>5 DEF Return, Drained
  <2>2. err \in {"busy", "nodes"}
    BY <2>1 DEF SearchInv, EndInv
  <2> QED
    BY <2>1, <2>2 DEF SliceInv, Ended
<1>6. CASE UNCHANGED vars
  BY <1>6 DEF vars, SliceInv
<1> QED
  BY <1>2, <1>3, <1>4, <1>5, <1>6 DEF Next

\* A search in slices that succeeds has done the rounds FindPath does, and
\* returns its path (FindPath, UpdateSlicedPath).
THEOREM SlicesFindTheSame == Spec => []SlicingIrrelevant
<1>1. SliceInv => SlicingIrrelevant
  BY DEF SliceInv, SlicingIrrelevant
<1>2. Spec => []SliceInv
  BY SearchInvariant, SliceInit, SliceNext, PTL DEF Spec
<1> QED
  BY <1>1, <1>2, PTL
=============================================================================
