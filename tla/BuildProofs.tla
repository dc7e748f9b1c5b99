---------------------------- MODULE BuildProofs ----------------------------
(***************************************************************************)
(* Theorems about the division of a compact heightfield into regions, for   *)
(* every grid, scene, plan and order of calls, and about the neighbours of  *)
(* the polygons of a mesh.                                                  *)
(***************************************************************************)
EXTENDS RegionBuild, FieldProofs, MeshEdges, FiniteSetTheorems

\* A number for each of n spans, and connections between them.
Numbers(n) == [1..n -> Nat]
Nets(n) == [1..n -> [Dirs -> 0..n]]

\* Listing a sequence changes nothing.
LEMMA ListedSame ==
    ASSUME NEW n \in Nat, NEW f \in Numbers(n)
    PROVE  Listed(f) = f
<1>1. f \in Seq(Nat)
  BY DEF Numbers
<1> QED
  BY <1>1 DEF Listed

\* The code looks for the first candidate, which is a span of the field or none.
LEMMA ConnectionsType ==
    ASSUME NEW sp, NEW n \in Nat, DOMAIN sp = 1..n
    PROVE  Connections(sp) \in Nets(n)
<1>1. ASSUME NEW i \in 1..n, NEW d \in Dirs
      PROVE  (IF Candidates(sp, i, d) = {} THEN None ELSE Min(Candidates(sp, i, d))) \in 0..n
  <2>1. Candidates(sp, i, d) \subseteq 1..n
    BY DEF Candidates
  <2>2. CASE Candidates(sp, i, d) = {}
    BY <2>2 DEF None
  <2>3. CASE Candidates(sp, i, d) # {}
    <3>1. Min(Candidates(sp, i, d)) \in Candidates(sp, i, d)
      BY <2>1, <2>3, SmallestIsMin
    <3> QED
      BY <2>1, <2>3, <3>1
  <2> QED
    BY <2>2, <2>3
<1>2. Connections(sp) = [i \in 1..n |-> [d \in Dirs |->
          IF Candidates(sp, i, d) = {} THEN None ELSE Min(Candidates(sp, i, d))]]
  BY DEF Connections
<1> QED
  BY <1>1, <1>2 DEF Nets

----------------------------------------------------------------------------
(* expandRegions *)

\* A cell that may join a region finds one: the region of a neighbour.
Joinable(c, a, r, i, d) ==
    c[i][d] # None /\ a[c[i][d]] = a[i] /\ r[c[i][d]] > 0 /\ ~Bordering(r[c[i][d]])

LEMMA NearestLemma ==
    ASSUME NEW n \in Nat, NEW c \in Nets(n), NEW a, NEW r \in Numbers(n), NEW w \in Numbers(n),
           NEW i \in 1..n
    PROVE  IF \E d \in Dirs : Joinable(c, a, r, i, d)
           THEN \E d \in Dirs : Joinable(c, a, r, i, d) /\ Nearest(c, a, r, w, i) = c[i][d]
           ELSE Nearest(c, a, r, w, i) = None
<1> DEFINE ways == {d \in Dirs : Joinable(c, a, r, i, d)}
           best == {d \in ways : \A e \in ways : w[c[i][d]] <= w[c[i][e]]}
<1>1. Nearest(c, a, r, w, i) = IF ways = {} THEN None ELSE c[i][Min(best)]
  BY DEF Nearest, Joinable
<1>2. CASE ways = {}
  BY <1>1, <1>2
<1>3. CASE ways # {}
  <2>1. ASSUME NEW d \in ways
        PROVE  c[i][d] \in 1..n /\ w[c[i][d]] \in Nat /\ d \in Nat
    <3>1. d \in Dirs /\ c[i][d] # None
      BY DEF Joinable
    <3>2. c[i] \in [Dirs -> 0..n]
      BY DEF Nets
    <3>3. c[i][d] \in 0..n
      BY <3>1, <3>2
    <3>4. c[i][d] \in 1..n
      BY <3>1, <3>3 DEF None
    <3>5. w[c[i][d]] \in Nat
      BY <3>4 DEF Numbers
    <3>6. d \in Nat
      BY <3>1 DEF Dirs
    <3> QED
      BY <3>4, <3>5, <3>6
  <2> DEFINE D == {w[c[i][d]] : d \in ways}
  <2>2. PICK x \in D : \A y \in D : x <= y
    <3>1. D \subseteq Nat /\ D # {}
      BY <1>3, <2>1
    <3> HIDE DEF D
    <3> QED
      BY <3>1, Smallest
  <2>3. best # {}
    <3>1. PICK d \in ways : x = w[c[i][d]]
      OBVIOUS
    <3>2. \A e \in ways : w[c[i][d]] <= w[c[i][e]]
      BY <2>2, <3>1
    <3> QED
      BY <3>1, <3>2
  <2>4. best \subseteq Nat
    BY <2>1
  <2>5. Min(best) \in best
    <3> HIDE DEF best
    <3> QED
      BY <2>3, <2>4, SmallestIsMin
  <2>6. Min(best) \in ways
    BY <2>5
  <2> QED
    BY <1>1, <1>3, <2>6
<1> QED
  BY <1>2, <1>3

\* The regions and distances that an expansion has.
Expansion(n) == [reg : Numbers(n), away : Numbers(n)]

\* A pass gives regions to the cells that find one, and takes none away.
LEMMA ExpandedLemma ==
    ASSUME NEW n \in Nat, NEW c \in Nets(n), NEW a, NEW g \in Expansion(n), NEW cells,
           NEW h, h = Expanded(c, a, g, cells)
    PROVE  /\ h \in Expansion(n)
           /\ \A i \in 1..n : i \in Taken(c, a, g, cells) => h.reg[i] # 0
           /\ \A i \in 1..n : i \notin Taken(c, a, g, cells) => h.reg[i] = g.reg[i]
<1> DEFINE T == Taken(c, a, g, cells)
           From(i) == Nearest(c, a, g.reg, g.away, i)
           reg1 == [i \in 1..n |-> IF i \in T THEN g.reg[From(i)] ELSE g.reg[i]]
           away1 == [i \in 1..n |-> IF i \in T THEN g.away[From(i)] + 2 ELSE g.away[i]]
<1>1. /\ g.reg \in Numbers(n) /\ g.away \in Numbers(n)
      /\ DOMAIN g.reg = 1..n /\ \A i \in 1..n : g.reg[i] \in Nat /\ g.away[i] \in Nat
  BY DEF Expansion, Numbers
<1>2. ASSUME NEW i \in 1..n, i \in T PROVE From(i) \in 1..n /\ g.reg[From(i)] > 0
  <2>1. From(i) # None
    BY <1>2 DEF Taken
  <2>2. PICK d \in Dirs : Joinable(c, a, g.reg, i, d) /\ From(i) = c[i][d]
    BY <1>1, <2>1, NearestLemma
  <2> QED
    BY <2>2 DEF Joinable, Nets, None
<1> HIDE DEF From
<1>3. reg1 \in Numbers(n) /\ away1 \in Numbers(n)
  BY <1>1, <1>2 DEF Numbers
<1>4. h = IF T = {} THEN g ELSE [reg |-> Listed(reg1), away |-> Listed(away1)]
  BY <1>1 DEF Expanded, From
<1>5. ASSUME T # {} PROVE h.reg = reg1 /\ h = [reg |-> reg1, away |-> away1]
  <2> HIDE DEF reg1, away1, T
  <2> QED
    BY <1>3, <1>4, <1>5, ListedSame
<1>6. h \in Expansion(n)
  <2> HIDE DEF reg1, away1, T
  <2> QED
    BY <1>3, <1>4, <1>5 DEF Expansion
<1>7. \A i \in 1..n : h.reg[i] = IF i \in T THEN g.reg[From(i)] ELSE g.reg[i]
  <2>1. CASE T = {}
    <3> HIDE DEF reg1, away1
    <3> QED
      BY <1>4, <2>1
  <2>2. CASE T # {}
    <3> HIDE DEF T
    <3> QED
      BY <1>5, <2>2
  <2> QED
    BY <2>1, <2>2
<1> HIDE DEF T
<1>8. \A i \in 1..n : i \in T => h.reg[i] # 0
  <2>1. \A i \in 1..n : i \in T => g.reg[From(i)] # 0
    <3> SUFFICES ASSUME NEW i \in 1..n, i \in T PROVE g.reg[From(i)] # 0
      OBVIOUS
    <3>1. From(i) \in 1..n /\ g.reg[From(i)] > 0 /\ g.reg[From(i)] \in Nat
      BY <1>1, <1>2
    <3> QED
      BY <3>1
  <2> QED
    BY <1>7, <2>1
<1> QED
  BY <1>6, <1>7, <1>8 DEF T

Bare(n, g) == {i \in 1..n : g.reg[i] = 0}

\* As many passes as there are spans, and one, leave no cell that finds a
\* region; no number of passes takes a region away.
LEMMA ExpandLemma ==
    ASSUME NEW n \in Nat, NEW c \in Nets(n), NEW a, NEW g \in Expansion(n), NEW cells,
           NEW rounds \in Nat, NEW h, h = Expand(c, a, g, cells, rounds)
    PROVE  /\ h \in Expansion(n)
           /\ Bare(n, h) \subseteq Bare(n, g)
           /\ rounds = n + 1 => Taken(c, a, h, cells) \cap 1..n = {}
<1> DEFINE Eq(f) == f = [k \in 0..rounds |-> IF k = 0 THEN g ELSE Expanded(c, a, f[k - 1], cells)]
           After == CHOOSE f : Eq(f)
           pass == [x \in Expansion(n) |-> Expanded(c, a, x, cells)]
           step == [k \in 1..rounds |-> pass]
<1>1. \A x \in Expansion(n) : Expanded(c, a, x, cells) \in Expansion(n)
  BY ExpandedLemma
<1>2. pass \in [Expansion(n) -> Expansion(n)] /\ \A x \in Expansion(n) : pass[x] = Expanded(c, a, x, cells)
  BY <1>1
<1> HIDE DEF pass
<1>3. step \in [1..rounds -> [Expansion(n) -> Expansion(n)]] /\ \A k \in 1..rounds : step[k] = pass
  BY <1>2
<1> HIDE DEF step
<1>4. \E f : Eq(f)
  <2>1. PICK f \in [0..rounds -> Expansion(n)] : IsRun(f, rounds, g, step)
    BY <1>3, Recursion
  <2>2. \A k \in 0..rounds : k # 0 => k \in 1..rounds /\ k - 1 \in 0..rounds
    OBVIOUS
  <2>3. \A k \in 0..rounds : f[k] = IF k = 0 THEN g ELSE Expanded(c, a, f[k - 1], cells)
    BY <1>2, <1>3, <2>1, <2>2 DEF IsRun
  <2>4. Eq(f)
    BY <2>3
  <2> QED
    BY <2>4
<1>5. Eq(After)
  <2> HIDE DEF Eq
  <2> QED
    BY <1>4
<1>6. h = After[rounds]
  BY DEF Expand
<1> HIDE DEF After
<1>7. After[0] = g /\ \A k \in 1..rounds : After[k] = Expanded(c, a, After[k - 1], cells)
  <2>1. 0 \in 0..rounds /\ \A k \in 1..rounds : k \in 0..rounds /\ k # 0
    OBVIOUS
  <2> QED
    BY <1>5, <2>1
<1> HIDE DEF Eq
<1> DEFINE Typed == {k \in 0..rounds : After[k] \in Expansion(n) /\ Bare(n, After[k]) \subseteq Bare(n, g)}
<1>8. 0..rounds \subseteq Typed
  <2>1. 0 \in Typed
    BY <1>7
  <2>2. ASSUME NEW k \in 1..rounds, k - 1 \in Typed PROVE k \in Typed
    <3>1. /\ After[k] \in Expansion(n)
          /\ \A i \in 1..n : i \in Taken(c, a, After[k - 1], cells) => After[k].reg[i] # 0
          /\ \A i \in 1..n : i \notin Taken(c, a, After[k - 1], cells) =>
                After[k].reg[i] = After[k - 1].reg[i]
      <4>1. After[k - 1] \in Expansion(n) /\ After[k] = Expanded(c, a, After[k - 1], cells)
        BY <1>7, <2>2
      <4> HIDE DEF Typed
      <4> QED
        BY <4>1, ExpandedLemma
    <3>2. Bare(n, After[k]) \subseteq Bare(n, After[k - 1])
      BY <3>1 DEF Bare
    <3>3. k \in 0..rounds
      OBVIOUS
    <3> QED
      BY <2>2, <3>1, <3>2, <3>3
  <2> HIDE DEF Typed
  <2> QED
    BY <2>1, <2>2, UpTo
<1>9. \A k \in 0..rounds : After[k] \in Expansion(n) /\ Bare(n, After[k]) \subseteq Bare(n, g)
  BY <1>8
<1>10. ASSUME rounds = n + 1 PROVE Taken(c, a, h, cells) \cap 1..n = {}
  \* Each pass that takes a cell leaves fewer.
  <2> DEFINE Settled(k) == Taken(c, a, After[k], cells) \cap 1..n = {}
             S == {k \in 0..rounds : Settled(k) \/ Cardinality(Bare(n, After[k])) <= n - k}
  <2>1. \A k \in 0..rounds : /\ IsFiniteSet(Bare(n, After[k]))
                             /\ Cardinality(Bare(n, After[k])) \in Nat
                             /\ Cardinality(Bare(n, After[k])) <= n
    <3>1. IsFiniteSet(1..n) /\ Cardinality(1..n) = n
      BY FS_Interval
    <3>2. \A k \in 0..rounds : Bare(n, After[k]) \subseteq 1..n
      BY DEF Bare
    <3> QED
      BY <3>1, <3>2, FS_Subset, FS_CardinalityType
  <2>2. 0 \in S
    <3>1. 0 \in 0..rounds /\ n - 0 = n
      OBVIOUS
    <3> QED
      BY <2>1, <3>1
  <2>3. ASSUME NEW k \in 1..rounds, k - 1 \in S PROVE k \in S
    <3>1. k - 1 \in 0..rounds /\ k \in 0..rounds
      OBVIOUS
    <3>2. /\ After[k - 1] \in Expansion(n) /\ After[k] \in Expansion(n)
          /\ \A i \in 1..n : i \in Taken(c, a, After[k - 1], cells) => After[k].reg[i] # 0
          /\ \A i \in 1..n : i \notin Taken(c, a, After[k - 1], cells) =>
                After[k].reg[i] = After[k - 1].reg[i]
      BY <1>7, <1>9, <3>1, ExpandedLemma
    <3>3. CASE Settled(k - 1)
      <4> SUFFICES Taken(c, a, After[k], cells) \cap 1..n = {}
        BY <3>1
      <4>1. After[k] = After[k - 1]
        <5>1. ASSUME Taken(c, a, After[k - 1], cells) # {}
              PROVE  After[k] = [reg |-> Listed(After[k - 1].reg), away |-> Listed(After[k - 1].away)]
          <6>1. DOMAIN After[k - 1].reg = 1..n /\ After[k - 1].reg \in Numbers(n)
                /\ After[k - 1].away \in Numbers(n)
            BY <3>2 DEF Expansion, Numbers
          <6>2. /\ [i \in 1..n |-> IF i \in Taken(c, a, After[k - 1], cells)
                       THEN After[k - 1].reg[Nearest(c, a, After[k - 1].reg, After[k - 1].away, i)]
                       ELSE After[k - 1].reg[i]] = After[k - 1].reg
                /\ [i \in 1..n |-> IF i \in Taken(c, a, After[k - 1], cells)
                       THEN After[k - 1].away[Nearest(c, a, After[k - 1].reg, After[k - 1].away, i)] + 2
                       ELSE After[k - 1].away[i]] = After[k - 1].away
            BY <3>3, <6>1 DEF Numbers
          <6> QED
            BY <1>7, <5>1, <6>1, <6>2 DEF Expanded
        <5>2. After[k - 1].reg \in Numbers(n) /\ After[k - 1].away \in Numbers(n)
          BY <3>2 DEF Expansion
        <5>3. CASE Taken(c, a, After[k - 1], cells) = {}
          BY <1>7, <5>3 DEF Expanded
        <5> QED
          BY <3>2, <5>1, <5>2, <5>3, ListedSame DEF Expansion
      <4> QED
        BY <3>3, <4>1
    <3>4. CASE ~Settled(k - 1)
      <4>1. PICK j \in 1..n : j \in Taken(c, a, After[k - 1], cells)
        BY <3>4
      <4>2. After[k - 1].reg[j] = 0 /\ After[k].reg[j] # 0
        BY <3>2, <4>1 DEF Taken
      <4>3. Bare(n, After[k]) \subseteq Bare(n, After[k - 1]) /\ Bare(n, After[k]) # Bare(n, After[k - 1])
        BY <3>2, <4>1, <4>2 DEF Bare
      <4>4. Cardinality(Bare(n, After[k])) < Cardinality(Bare(n, After[k - 1]))
        <5>1. /\ Cardinality(Bare(n, After[k])) <= Cardinality(Bare(n, After[k - 1]))
              /\ Cardinality(Bare(n, After[k])) = Cardinality(Bare(n, After[k - 1])) =>
                    Bare(n, After[k]) = Bare(n, After[k - 1])
          BY <2>1, <3>1, <4>3, FS_Subset
        <5> QED
          BY <2>1, <3>1, <4>3, <5>1
      <4>5. Cardinality(Bare(n, After[k - 1])) <= n - (k - 1)
        BY <2>3, <3>4
      <4>6. Cardinality(Bare(n, After[k])) <= n - k
        BY <2>1, <3>1, <4>4, <4>5
      <4> QED
        BY <3>1, <4>6
    <3> QED
      BY <3>3, <3>4
  <2>4. rounds \in S
    <3>1. 0..rounds \subseteq S
      <4> HIDE DEF S
      <4> QED
        BY <2>2, <2>3, UpTo
    <3> QED
      BY <3>1
  <2>5. ~(Cardinality(Bare(n, After[rounds])) <= n - rounds)
    <3>1. rounds \in 0..rounds
      OBVIOUS
    <3> QED
      BY <1>10, <2>1, <3>1
  <2> QED
    BY <1>6, <2>4, <2>5
<1> QED
  BY <1>6, <1>9, <1>10

----------------------------------------------------------------------------
(* The watershed *)

\* Picking elements of a sequence gives a sequence of elements.
LEMMA PickedType ==
    ASSUME NEW S, NEW s \in Seq(S), NEW keep
    PROVE  Picked(s, keep) \in Seq(S)
<1> DEFINE n == Len(s)
           Eq(f) == f = [k \in 0..n |-> IF k = 0 THEN <<>>
                                        ELSE IF s[k] \in keep THEN Append(f[k - 1], s[k]) ELSE f[k - 1]]
           Kept == CHOOSE f : Eq(f)
           step == [k \in 1..n |-> [q \in Seq(S) |-> IF s[k] \in keep THEN Append(q, s[k]) ELSE q]]
<1>1. n \in Nat /\ <<>> \in Seq(S) /\ \A k \in 1..n : s[k] \in S
  OBVIOUS
<1> HIDE DEF n
<1>2. /\ step \in [1..n -> [Seq(S) -> Seq(S)]]
      /\ \A k \in 1..n : \A q \in Seq(S) :
            step[k][q] = IF s[k] \in keep THEN Append(q, s[k]) ELSE q
  BY <1>1
<1> HIDE DEF step
<1>3. PICK f \in [0..n -> Seq(S)] : IsRun(f, n, <<>>, step)
  BY <1>1, <1>2, Recursion
<1>4. Eq(f)
  <2>1. \A k \in 0..n : k # 0 => k \in 1..n /\ k - 1 \in 0..n
    BY <1>1
  <2>2. \A k \in 0..n : f[k] = IF k = 0 THEN <<>>
                               ELSE IF s[k] \in keep THEN Append(f[k - 1], s[k]) ELSE f[k - 1]
    BY <1>2, <1>3, <2>1 DEF IsRun
  <2> QED
    BY <2>2
<1>5. Eq(Kept)
  <2> HIDE DEF Eq
  <2> QED
    BY <1>4
<1>6. Picked(s, keep) = Kept[n]
  BY DEF Picked, n
<1> HIDE DEF Kept
<1>7. /\ Kept[0] = <<>>
      /\ \A k \in 1..n : Kept[k] = IF s[k] \in keep THEN Append(Kept[k - 1], s[k]) ELSE Kept[k - 1]
  <2>1. 0 \in 0..n /\ \A k \in 1..n : k \in 0..n /\ k # 0
    BY <1>1
  <2> QED
    BY <1>5, <2>1
<1> HIDE DEF Eq
<1> DEFINE T == {k \in 0..n : Kept[k] \in Seq(S)}
<1>8. 0 \in T
  <2>1. Kept[0] = <<>>
    BY <1>7
  <2>2. Kept[0] \in Seq(S)
    BY <1>1, <2>1
  <2> QED
    BY <1>1, <2>2
<1>9. ASSUME NEW k \in 1..n, k - 1 \in T PROVE k \in T
  <2>1. k \in 0..n /\ Kept[k - 1] \in Seq(S) /\ s[k] \in S
    BY <1>1, <1>9
  <2>2. PICK q \in Seq(S) : q = Kept[k - 1]
    BY <2>1
  <2>3. Append(q, s[k]) \in Seq(S)
    BY <2>1
  <2>4. Kept[k] = Append(q, s[k]) \/ Kept[k] = q
    BY <1>7, <2>2
  <2>5. Kept[k] \in Seq(S)
    BY <2>3, <2>4
  <2> QED
    BY <2>1, <2>5
<1>10. n \in T
  <2>1. 0..n \subseteq T
    <3> HIDE DEF T
    <3> QED
      BY <1>1, <1>8, <1>9, UpTo
  <2> QED
    BY <1>1, <2>1
<1> QED
  BY <1>6, <1>10

\* The regions, distances and next id that seeding has.
Seeding(n) == [reg : Numbers(n), away : Numbers(n), next : Nat \ {0}]

\* Seeding gives numbers for numbers.
LEMMA SeedType ==
    ASSUME NEW n \in Nat, NEW c, NEW a, NEW d, NEW lev, NEW g \in Seeding(n), NEW i
    PROVE  Seed(c, a, d, lev, g, i) \in Seeding(n)
<1>1. PICK filled : filled = Flooded(c, a, d, g.reg, lev, i, g.next)
  OBVIOUS
<1>2. g.reg \in Numbers(n) /\ g.away \in Numbers(n) /\ g.next \in Nat \ {0} /\ DOMAIN g.reg = 1..n
  BY DEF Seeding, Numbers
<1> DEFINE reg1 == [j \in 1..n |-> IF j \in filled THEN g.next ELSE g.reg[j]]
           away1 == [j \in 1..n |-> IF j \in filled THEN 0 ELSE g.away[j]]
<1>3. reg1 \in Numbers(n) /\ away1 \in Numbers(n)
  BY <1>2 DEF Numbers
<1>4. Seed(c, a, d, lev, g, i) = IF g.reg[i] # 0 \/ filled = {} THEN g
                                ELSE [reg |-> Listed(reg1), away |-> Listed(away1), next |-> g.next + 1]
  BY <1>1, <1>2 DEF Seed
<1> HIDE DEF reg1, away1
<1>5. Listed(reg1) = reg1 /\ Listed(away1) = away1
  BY <1>3, ListedSame
<1>6. [reg |-> reg1, away |-> away1, next |-> g.next + 1] \in Seeding(n)
  BY <1>2, <1>3 DEF Seeding
<1> QED
  BY <1>4, <1>5, <1>6

LEMMA SeededType ==
    ASSUME NEW n \in Nat, NEW c, NEW a, NEW d, NEW lev, NEW g \in Seeding(n),
           NEW S, NEW stack \in Seq(S)
    PROVE  Seeded(c, a, d, lev, stack, g) \in Seeding(n)
<1> DEFINE m == Len(stack)
           Eq(f) == f = [k \in 0..m |-> IF k = 0 THEN g ELSE Seed(c, a, d, lev, f[k - 1], stack[k])]
           After == CHOOSE f : Eq(f)
           step == [k \in 1..m |-> [x \in Seeding(n) |-> Seed(c, a, d, lev, x, stack[k])]]
<1>1. m \in Nat
  OBVIOUS
<1> HIDE DEF m
<1>2. /\ step \in [1..m -> [Seeding(n) -> Seeding(n)]]
      /\ \A k \in 1..m : \A x \in Seeding(n) : step[k][x] = Seed(c, a, d, lev, x, stack[k])
  BY SeedType
<1> HIDE DEF step
<1>3. PICK f \in [0..m -> Seeding(n)] : IsRun(f, m, g, step)
  BY <1>1, <1>2, Recursion
<1>4. Eq(f)
  <2>1. \A k \in 0..m : k # 0 => k \in 1..m /\ k - 1 \in 0..m
    BY <1>1
  <2>2. \A k \in 0..m : f[k] = IF k = 0 THEN g ELSE Seed(c, a, d, lev, f[k - 1], stack[k])
    BY <1>2, <1>3, <2>1 DEF IsRun
  <2> QED
    BY <2>2
<1>5. Eq(After)
  <2> HIDE DEF Eq
  <2> QED
    BY <1>4
<1>6. Seeded(c, a, d, lev, stack, g) = After[m]
  BY DEF Seeded, m
<1> HIDE DEF After
<1> DEFINE T == {k \in 0..m : After[k] \in Seeding(n)}
<1>7. 0 \in T
  <2>1. 0 \in 0..m
    BY <1>1
  <2> QED
    BY <1>5, <2>1
<1>8. ASSUME NEW k \in 1..m, k - 1 \in T PROVE k \in T
  <2>1. k \in 0..m /\ k # 0 /\ After[k - 1] \in Seeding(n)
    BY <1>1, <1>8
  <2>2. After[k] = Seed(c, a, d, lev, After[k - 1], stack[k])
    BY <1>5, <2>1
  <2> QED
    BY <2>1, <2>2, SeedType
<1>9. m \in T
  <2>1. 0..m \subseteq T
    <3> HIDE DEF T
    <3> QED
      BY <1>1, <1>7, <1>8, UpTo
  <2> QED
    BY <1>1, <2>1
<1> QED
  BY <1>6, <1>9

\* The stacks hold spans.
LEMMA SortedType ==
    ASSUME NEW sp, NEW n \in Nat, DOMAIN sp = 1..n, NEW a, NEW d, NEW r, NEW lev
    PROVE  Sorted(sp, a, d, r, lev) \in Seq(Seq(Nat)) /\ Len(Sorted(sp, a, d, r, lev)) >= 1
<1>1. Scan(sp) \in Seq(Nat)
  BY DEF Scan
<1>2. \A keep : Picked(Scan(sp), keep) \in Seq(Nat)
  BY <1>1, PickedType
<1>3. Sorted(sp, a, d, r, lev) \in [1..Stacks -> Seq(Nat)]
  BY <1>2 DEF Sorted
<1>4. Stacks \in Nat /\ Stacks >= 1
  BY PartitionAssumption
<1> QED
  BY <1>3, <1>4

----------------------------------------------------------------------------
(* The sweeps *)

Sweep == [ns : Nat, nei : Nat]
Sweeps == Seq(Sweep)
Rows(n, m) == [reg : Numbers(n), sweeps : Sweeps, above : [1..m -> Nat]]

\* A function over the first n numbers, into the runs, is a sequence of runs.
LEMMA MadeSweeps ==
    ASSUME NEW n \in Nat, NEW s, s = [x \in 1..n |-> s[x]], \A x \in 1..n : s[x] \in Sweep
    PROVE  s \in Sweeps
<1>1. s \in [1..n -> Sweep]
  BY Zenon
<1> QED
  BY <1>1 DEF Sweeps

\* Meeting a region touches the runs and the contacts only.
LEMMA MetType ==
    ASSUME NEW n \in Nat, NEW m \in Nat, NEW row \in Rows(n, m), NEW k, NEW r \in Nat,
           NEW t, t = Met(row, k, r)
    PROVE  t \in Rows(n, m) /\ t.reg = row.reg
<1>1. row.reg \in Numbers(n) /\ row.sweeps \in Sweeps /\ row.above \in [1..m -> Nat]
  BY DEF Rows
<1>2. row = [reg |-> row.reg, sweeps |-> row.sweeps, above |-> row.above]
  BY DEF Rows
<1>3. /\ Len(row.sweeps) \in Nat /\ DOMAIN row.sweeps = 1..Len(row.sweeps)
      /\ \A x \in DOMAIN row.sweeps : row.sweeps[x] \in Sweep
  BY <1>1 DEF Sweeps
<1> DEFINE counted == [x \in 1..Len(row.sweeps) |->
                          IF x = k THEN [ns |-> row.sweeps[k].ns + 1, nei |-> r] ELSE row.sweeps[x]]
           above1 == [x \in 1..m |-> IF x = r THEN row.above[r] + 1 ELSE row.above[x]]
           mixed == [x \in 1..Len(row.sweeps) |->
                        IF x = k THEN [ns |-> row.sweeps[k].ns, nei |-> NoNeighbour]
                        ELSE row.sweeps[x]]
<1>4. counted \in Sweeps
  <2>1. \A x \in 1..Len(row.sweeps) : counted[x] \in Sweep
    BY <1>3 DEF Sweep
  <2>2. DOMAIN counted = 1..Len(row.sweeps)
    OBVIOUS
  <2>3. counted = [x \in 1..Len(row.sweeps) |-> counted[x]]
    OBVIOUS
  <2> HIDE DEF counted
  <2> QED
    BY <1>3, <2>1, <2>3, MadeSweeps, Zenon
<1>5. mixed \in Sweeps
  <2>1. \A x \in 1..Len(row.sweeps) : mixed[x] \in Sweep
    BY <1>3 DEF NoNeighbour, Sweep
  <2>3. mixed = [x \in 1..Len(row.sweeps) |-> mixed[x]]
    OBVIOUS
  <2> HIDE DEF mixed
  <2> QED
    BY <1>3, <2>1, <2>3, MadeSweeps, Zenon
<1>6. above1 \in [1..m -> Nat]
  <2>1. PICK up \in [1..m -> Nat] : up = row.above
    BY <1>1
  <2>2. \A x \in 1..m : above1[x] \in Nat
    BY <2>1
  <2>3. above1 = [x \in 1..m |-> above1[x]]
    OBVIOUS
  <2> HIDE DEF above1
  <2> QED
    BY <2>2, <2>3
<1>7. CASE row.sweeps[k].nei \in {0, r}
  <2>1. t = [reg |-> row.reg, sweeps |-> counted, above |-> above1]
    <3>1. t = [row EXCEPT !.sweeps[k] = [ns |-> @.ns + 1, nei |-> r], !.above[r] = @ + 1]
      BY <1>7 DEF Met
    <3>2. [row.sweeps EXCEPT ![k] = [ns |-> @.ns + 1, nei |-> r]] = counted
      BY <1>3
    <3>3. [row.above EXCEPT ![r] = @ + 1] = above1
      BY <1>1
    <3> HIDE DEF counted, above1
    <3> QED
      BY <1>2, <3>1, <3>2, <3>3
  <2> HIDE DEF counted, above1
  <2> QED
    BY <1>1, <1>4, <1>6, <2>1 DEF Rows
<1>8. CASE row.sweeps[k].nei \notin {0, r}
  <2>1. t = [reg |-> row.reg, sweeps |-> mixed, above |-> row.above]
    <3>1. t = [row EXCEPT !.sweeps[k].nei = NoNeighbour]
      BY <1>8 DEF Met
    <3>2. [row.sweeps EXCEPT ![k].nei = NoNeighbour] = mixed
      <4>1. k \in DOMAIN row.sweeps =>
               [row.sweeps[k] EXCEPT !.nei = NoNeighbour] = [ns |-> row.sweeps[k].ns, nei |-> NoNeighbour]
        BY <1>3 DEF Sweep
      <4> QED
        BY <1>3, <4>1
    <3> HIDE DEF mixed
    <3> QED
      BY <1>2, <3>1, <3>2
  <2> HIDE DEF mixed
  <2> QED
    BY <1>1, <1>5, <2>1 DEF Rows
<1> QED
  BY <1>7, <1>8

\* A span that is swept gets a number, and no other span changes its own.
LEMMA SweptLemma ==
    ASSUME NEW n \in Nat, NEW m \in Nat, NEW c \in Nets(n), NEW a, NEW row \in Rows(n, m),
           NEW i \in 1..n,
           NEW t, t = Swept(c, a, row, i)
    PROVE  /\ t \in Rows(n, m) /\ t.reg[i] # 0
           /\ \A j \in 1..n : j # i => t.reg[j] = row.reg[j]
<1> DEFINE left == c[i][0]
           up == c[i][3]
           joins == left # None /\ a[left] = a[i] /\ ~Bordering(row.reg[left])
           k == IF joins /\ row.reg[left] # 0 THEN row.reg[left] ELSE Len(row.sweeps) + 1
           begun == IF k <= Len(row.sweeps) THEN row ELSE [row EXCEPT !.sweeps = Append(@, NoSweep)]
           meets == up # None /\ a[up] = a[i] /\ row.reg[up] # 0 /\ ~Bordering(row.reg[up])
           met == IF meets THEN Met(begun, k, row.reg[up]) ELSE begun
<1>1. t = [met EXCEPT !.reg[i] = k]
  BY DEF Swept
<1>2. row.reg \in Numbers(n) /\ row.sweeps \in Sweeps /\ row.above \in [1..m -> Nat]
      /\ row = [reg |-> row.reg, sweeps |-> row.sweeps, above |-> row.above]
  BY DEF Rows
<1>3. left \in 0..n /\ up \in 0..n
  BY DEF Nets, Dirs
<1>4. k \in Nat \ {0}
  <2>1. joins => row.reg[left] \in Nat
    BY <1>2, <1>3 DEF Numbers, None
  <2>2. Len(row.sweeps) \in Nat
    BY <1>2 DEF Sweeps
  <2> QED
    BY <2>1, <2>2
<1> HIDE DEF k
<1>5. begun \in Rows(n, m) /\ begun.reg = row.reg
  <2>1. Append(row.sweeps, NoSweep) \in Sweeps
    BY <1>2 DEF Sweeps, Sweep, NoSweep
  <2>2. [row EXCEPT !.sweeps = Append(@, NoSweep)] =
           [reg |-> row.reg, sweeps |-> Append(row.sweeps, NoSweep), above |-> row.above]
    BY <1>2
  <2> QED
    BY <1>2, <2>1, <2>2 DEF Rows
<1> HIDE DEF begun
<1>6. met \in Rows(n, m) /\ met.reg = row.reg
  <2>1. meets => row.reg[up] \in Nat
    BY <1>2, <1>3 DEF Numbers, None
  <2> QED
    BY <1>5, <2>1, MetType
<1> HIDE DEF met
<1>7. t = [reg |-> [row.reg EXCEPT ![i] = k], sweeps |-> met.sweeps, above |-> met.above]
  <2>1. met = [reg |-> met.reg, sweeps |-> met.sweeps, above |-> met.above]
    BY <1>6 DEF Rows
  <2> QED
    BY <1>1, <1>6, <2>1
<1>8. [row.reg EXCEPT ![i] = k] \in Numbers(n)
  BY <1>2, <1>4 DEF Numbers
<1>9. t \in Rows(n, m)
  BY <1>6, <1>7, <1>8 DEF Rows
<1>10. t.reg = [row.reg EXCEPT ![i] = k] /\ DOMAIN row.reg = 1..n
  BY <1>2, <1>7 DEF Numbers
<1> QED
  BY <1>4, <1>9, <1>10

\* After a row, its spans have numbers, and the others those they had.
LEMMA SweepRowLemma ==
    ASSUME NEW n \in Nat, NEW m \in Nat, NEW c \in Nets(n), NEW a, NEW r \in Numbers(n),
           NEW sp, DOMAIN sp = 1..n, Len(sp) = n, NEW z, NEW b,
           NEW mine, mine = RowSpans(sp, a, z, b), NEW row, row = SweepRow(sp, c, a, r, z, b, m)
    PROVE  /\ row \in Rows(n, m)
           /\ \A i \in 1..n : IF i \in mine THEN row.reg[i] # 0 ELSE row.reg[i] = r[i]
<1> DEFINE start == [reg |-> r, sweeps |-> <<>>, above |-> [q \in 1..m |-> 0]]
           Next1(i, x) == IF i \in mine THEN Swept(c, a, x, i) ELSE x
           Eq(f) == f = [i \in 0..n |-> IF i = 0 THEN start
                                        ELSE IF i \in mine THEN Swept(c, a, f[i - 1], i) ELSE f[i - 1]]
           After == CHOOSE f : Eq(f)
           step == [i \in 1..n |-> [x \in Rows(n, m) |-> Next1(i, x)]]
<1>1. start \in Rows(n, m) /\ start.reg = r
  <2>1. <<>> \in Sweeps
    BY DEF Sweeps
  <2> QED
    BY <2>1 DEF Rows
<1>2. ASSUME NEW i \in 1..n, NEW x \in Rows(n, m)
      PROVE  /\ Next1(i, x) \in Rows(n, m)
             /\ i \in mine => Next1(i, x).reg[i] # 0
             /\ \A j \in 1..n : j # i \/ i \notin mine => Next1(i, x).reg[j] = x.reg[j]
  <2>1. CASE i \in mine
    BY <2>1, SweptLemma
  <2>2. CASE i \notin mine
    BY <2>2
  <2> QED
    BY <2>1, <2>2
<1>3. /\ step \in [1..n -> [Rows(n, m) -> Rows(n, m)]]
      /\ \A i \in 1..n : \A x \in Rows(n, m) : step[i][x] = Next1(i, x)
  <2> HIDE DEF Next1
  <2> QED
    BY <1>2
<1> HIDE DEF step, start
<1>4. PICK f \in [0..n -> Rows(n, m)] : IsRun(f, n, start, step)
  BY <1>1, <1>3, Recursion
<1>5. Eq(f)
  <2>1. \A i \in 0..n : i # 0 => i \in 1..n /\ i - 1 \in 0..n
    OBVIOUS
  <2>2. \A i \in 0..n : f[i] = IF i = 0 THEN start
                               ELSE IF i \in mine THEN Swept(c, a, f[i - 1], i) ELSE f[i - 1]
    BY <1>3, <1>4, <2>1 DEF IsRun
  <2> QED
    BY <2>2
<1>6. Eq(After)
  <2> HIDE DEF Eq
  <2> QED
    BY <1>5
<1>7. row = After[n]
  BY DEF SweepRow, start
<1> HIDE DEF After
<1>8. After[0] = start /\ \A i \in 1..n : After[i] = Next1(i, After[i - 1])
  <2>1. 0 \in 0..n /\ \A i \in 1..n : i \in 0..n /\ i # 0
    OBVIOUS
  <2> QED
    BY <1>6, <2>1
<1> HIDE DEF Eq, Next1
<1> DEFINE Good(i) == /\ After[i] \in Rows(n, m)
                      /\ \A j \in 1..n : IF j \in mine /\ j <= i THEN After[i].reg[j] # 0
                                         ELSE After[i].reg[j] = r[j]
           T == {i \in 0..n : Good(i)}
<1>9. 0 \in T
  <2>1. \A j \in 1..n : ~(j <= 0)
    OBVIOUS
  <2> QED
    BY <1>1, <1>8, <2>1
<1>10. ASSUME NEW i \in 1..n, i - 1 \in T PROVE i \in T
  <2>1. /\ After[i - 1] \in Rows(n, m) /\ i \in 0..n
        /\ \A j \in 1..n : IF j \in mine /\ j <= i - 1 THEN After[i - 1].reg[j] # 0
                           ELSE After[i - 1].reg[j] = r[j]
    BY <1>10
  <2>2. /\ After[i] \in Rows(n, m)
        /\ i \in mine => After[i].reg[i] # 0
        /\ \A j \in 1..n : j # i \/ i \notin mine => After[i].reg[j] = After[i - 1].reg[j]
    BY <1>2, <1>8, <2>1
  <2>3. \A j \in 1..n : j <= i - 1 <=> j <= i /\ j # i
    OBVIOUS
  <2> QED
    BY <2>1, <2>2, <2>3
<1>11. Good(n)
  <2>1. 0..n \subseteq T
    <3> HIDE DEF T
    <3> QED
      BY <1>9, <1>10, UpTo
  <2>2. n \in 0..n
    OBVIOUS
  <2> HIDE DEF Good
  <2> QED
    BY <2>1, <2>2
<1>12. \A j \in 1..n : j <= n
  OBVIOUS
<1> QED
  BY <1>7, <1>11, <1>12

\* The numbers that the runs get are above 0, and the next one is too.
LEMMA IdsType ==
    ASSUME NEW n \in Nat, NEW m \in Nat \ {0}, NEW row \in Rows(n, m)
    PROVE  /\ \A k \in DOMAIN SweepIds(row, m) : SweepIds(row, m)[k] \in Nat \ {0}
           /\ NextId(row, m) \in Nat \ {0}
<1>1. /\ Len(row.sweeps) \in Nat /\ DOMAIN row.sweeps = 1..Len(row.sweeps)
      /\ \A x \in DOMAIN row.sweeps : row.sweeps[x].nei \in Nat
  <2>1. row.sweeps \in Seq(Sweep)
    BY DEF Rows, Sweeps
  <2>2. \A x \in DOMAIN row.sweeps : row.sweeps[x] \in Sweep
    BY <2>1
  <2> QED
    BY <2>1, <2>2 DEF Sweep
<1>2. ASSUME NEW q \in Nat, NEW S \in SUBSET (1..q) PROVE m + Cardinality(S) \in Nat \ {0}
  <2>1. IsFiniteSet(1..q)
    BY FS_Interval
  <2>2. Cardinality(S) \in Nat
    BY <2>1, FS_Subset, FS_CardinalityType
  <2> QED
    BY <2>2
<1>3. ASSUME NEW k \in DOMAIN SweepIds(row, m) PROVE SweepIds(row, m)[k] \in Nat \ {0}
  <2>1. /\ k \in DOMAIN row.sweeps /\ k \in 1..Len(row.sweeps)
        /\ SweepIds(row, m)[k] = IF Continues(row, k) THEN row.sweeps[k].nei
                                 ELSE m + Cardinality({p \in 1..k - 1 : ~Continues(row, p)})
    BY <1>1 DEF SweepIds
  <2>2. Continues(row, k) => row.sweeps[k].nei # 0
    BY DEF Continues
  <2>3. m + Cardinality({p \in 1..k - 1 : ~Continues(row, p)}) \in Nat \ {0}
    <3>1. k - 1 \in Nat /\ {p \in 1..k - 1 : ~Continues(row, p)} \in SUBSET (1..(k - 1))
      BY <1>1, <2>1
    <3> QED
      BY <1>2, <3>1
  <2> QED
    BY <1>1, <2>1, <2>2, <2>3
<1>4. NextId(row, m) \in Nat \ {0}
  <2>1. {k \in DOMAIN row.sweeps : ~Continues(row, k)} \in SUBSET (1..Len(row.sweeps))
    BY <1>1
  <2> QED
    BY <1>1, <1>2, <2>1 DEF NextId
<1> QED
  BY <1>3, <1>4

\* Giving the runs their ids leaves no span of the row without one, and touches
\* no other span.
LEMMA RenumberedLemma ==
    ASSUME NEW n \in Nat, NEW m \in Nat \ {0}, NEW sp, DOMAIN sp = 1..n, NEW row \in Rows(n, m),
           NEW z, NEW b, NEW t, t = Renumbered(sp, row, z, b, m)
    PROVE  /\ t \in Numbers(n)
           /\ \A i \in 1..n : row.reg[i] # 0 => t[i] # 0
<1> DEFINE ids == SweepIds(row, m)
<1>1. \A k \in DOMAIN ids : ids[k] \in Nat \ {0}
  BY IdsType
<1>2. \A i \in 1..n : row.reg[i] \in Nat
  BY DEF Rows, Numbers
<1>3. t = [i \in 1..n |-> IF sp[i].z = z /\ sp[i].x \in b..Width - b - 1 /\ row.reg[i] \in DOMAIN ids
                          THEN ids[row.reg[i]] ELSE row.reg[i]]
  BY DEF Renumbered
<1> HIDE DEF ids
<1> QED
  BY <1>1, <1>2, <1>3 DEF Numbers

\* The part of the grid that the sweeps pass over.
Inner(s, b) == s.x \in b..Width - b - 1 /\ s.z \in b..Height - b - 1

\* The strips of the border cover the rest.
LEMMA PaintedLemma ==
    ASSUME NEW n \in Nat, NEW sp \in Seq(OpenSpan), Len(sp) = n, OnGrid(sp), NEW a, NEW b \in Nat
    PROVE  /\ Painted(sp, a, b) \in Numbers(n)
           /\ \A i \in 1..n : a[i] # NullArea /\ ~Inner(sp[i], b) => Painted(sp, a, b)[i] # 0
           /\ FirstRegion(b) \in Nat \ {0}
<1>1. Width \in Nat /\ Height \in Nat
  BY GridAssumption
<1>2. ASSUME NEW i \in 1..n
      PROVE  /\ Strip(sp[i], b) \in Nat
             /\ ~Inner(sp[i], b) => b # 0 /\ Strip(sp[i], b) # 0
  <2>1. sp[i].x \in 0..Width - 1 /\ sp[i].z \in 0..Height - 1
    <3>1. <<sp[i].x, sp[i].z>> \in Cells
      BY DEF OnGrid
    <3> QED
      BY <3>1 DEF Cells
  <2> QED
    BY <1>1, <2>1 DEF Strip, Inner, Lower
<1>3. Painted(sp, a, b) = [i \in 1..n |-> IF b = 0 \/ a[i] = NullArea \/ Strip(sp[i], b) = 0 THEN 0
                                          ELSE BorderReg + Strip(sp[i], b)]
  BY DEF Painted
<1>4. FirstRegion(b) \in Nat \ {0}
  BY DEF FirstRegion
<1> QED
  BY <1>2, <1>3, <1>4 DEF Numbers, BorderReg

----------------------------------------------------------------------------
(* The build *)

Planned(builder) == plan.builder = builder
Solids == {"start", "filtered"}
Dividing == {"levels", "rows", "divided"}

\* A compact field with its connections.
Field == /\ spans \in Seq(OpenSpan) /\ OnGrid(spans)
         /\ con \in Nets(Len(spans))

\* The rows that were swept, and the border, have regions.
SweptSoFar == \A i \in 1..Len(spans) :
    areas[i] # NullArea /\ (~Inner(spans[i], plan.border) \/ spans[i].z < level) => reg[i] # 0

\* What holds at each stage of the division.
RegionParts ==
    /\ plan \in Plans
    /\ stage \in Solids => Pile
    /\ stage \notin Solids => Field
    /\ stage \in Dividing => reg \in Numbers(Len(spans)) /\ next \in Nat \ {0}
    /\ stage = "levels" => /\ Planned("watershed")
                           /\ away \in Numbers(Len(spans)) /\ stacks \in Seq(Seq(Nat))
    /\ stage = "rows" => ~Planned("watershed") /\ level \in Nat /\ SweptSoFar
    /\ NoGroundLeft
RegionInv == stage \in RegionStages => RegionParts

LEMMA RegionInit == Init => RegionInv
<1> SUFFICES ASSUME Init PROVE RegionParts
  BY DEF RegionInv
<1>1. Pile /\ plan \in Plans /\ stage = "start"
  BY EmptyPile DEF Init, FieldStart
<1> QED
  BY <1>1 DEF RegionParts, NoGroundLeft, Solids, Dividing

\* The steps up to the areas leave the field of spans as it is, or build it.
LEMMA FieldStepKeeps ==
    ASSUME RegionParts, FieldStep
    PROVE  RegionInv'
<1>1. CASE RasterizeTriangles
  <2>1. Pile'
    BY <1>1, RasterizeKeeps DEF RegionParts, RasterizeTriangles, At, Solids
  <2> QED
    BY <1>1, <2>1 DEF RegionInv, RegionParts, RasterizeTriangles, At, Solids, Dividing, NoGroundLeft
<1>2. CASE Filters
  <2>1. plan.steps \in BOOLEAN /\ plan.ledges \in BOOLEAN /\ plan.clearance \in BOOLEAN
    BY FieldAssumption DEF RegionParts
  <2>2. Pile'
    BY <1>2, <2>1, FilterKeeps DEF RegionParts, Filters, At, Solids
  <2> QED
    BY <1>2, <2>2 DEF RegionInv, RegionParts, Filters, Goto, Solids, Dividing, NoGroundLeft
<1>3. CASE BuildCompactHeightfield
  <2>1. CompactSpans(columns) \in Seq(OpenSpan) /\ OnGrid(CompactSpans(columns))
    BY <1>3, SpansStacked DEF RegionParts, BuildCompactHeightfield, At, Solids
  <2>2. Connections(CompactSpans(columns)) \in Nets(Len(CompactSpans(columns)))
    BY <2>1, ConnectionsType
  <2>3. spans' = CompactSpans(columns) /\ con' = Connections(CompactSpans(columns))
    BY <1>3 DEF BuildCompactHeightfield
  <2>4. Field'
    BY <2>1, <2>2, <2>3 DEF Field, OnGrid
  <2> QED
    BY <1>3, <2>4
    DEF RegionInv, RegionParts, BuildCompactHeightfield, Goto, Solids, Dividing, NoGroundLeft
<1>4. CASE MarkAreas \/ ErodeWalkableArea \/ MedianFilterWalkableArea
  <2>1. /\ UNCHANGED <<plan, chfVars>>
        /\ stage \in {"compact", "marked", "eroded"} /\ stage' \in {"marked", "eroded", "areas"}
    <3>1. CASE MarkAreas
      BY <3>1, Zenon DEF MarkAreas, At, Goto
    <3>2. CASE ErodeWalkableArea
      BY <3>2, Zenon DEF ErodeWalkableArea, At, Goto
    <3>3. CASE MedianFilterWalkableArea
      BY <3>3, Zenon DEF MedianFilterWalkableArea, At, Goto
    <3> QED
      BY <1>4, <3>1, <3>2, <3>3
  <2>2. Field'
    BY <2>1 DEF RegionParts, Field, OnGrid, chfVars, Solids
  <2> QED
    BY <2>1, <2>2 DEF RegionInv, RegionParts, Solids, Dividing, NoGroundLeft
<1> QED
  BY <1>1, <1>2, <1>3, <1>4 DEF FieldStep

\* The actions of the division leave the field alone.
FieldKept == UNCHANGED <<plan, spans, con, areas>>

\* Both divisions start with the regions of the border.
LEMMA StartsKeep ==
    ASSUME RegionParts, BuildDistanceField \/ StartWatershed \/ StartSweeps
    PROVE  RegionInv'
<1>1. FieldKept
  BY Zenon DEF BuildDistanceField, StartWatershed, StartSweeps, fieldVars, chfVars, FieldKept
<1>2. stage \in {"areas", "distance"}
  BY DEF BuildDistanceField, StartWatershed, StartSweeps, At
<1>3. Field /\ Field'
  BY <1>1, <1>2 DEF RegionParts, Solids, Field, FieldKept, OnGrid
<1>4. CASE BuildDistanceField
  <2>1. stage' = "distance"
    BY <1>4 DEF BuildDistanceField, Goto
  <2> QED
    BY <1>1, <1>3, <2>1 DEF RegionInv, RegionParts, Solids, Dividing, NoGroundLeft, FieldKept
<1> DEFINE n == Len(spans)
           b == plan.border
           painted == Painted(spans, areas, b)
<1>5. b \in Nat /\ n \in Nat /\ DOMAIN spans = 1..n
  BY <1>3, RegionAssumption DEF RegionParts, Field
<1>6. /\ painted \in Numbers(n) /\ FirstRegion(b) \in Nat \ {0}
      /\ \A i \in 1..n : areas[i] # NullArea /\ ~Inner(spans[i], b) => painted[i] # 0
  BY <1>3, <1>5, PaintedLemma DEF Field
<1>7. CASE StartWatershed
  <2>1. /\ stage' = "levels" /\ plan.builder = "watershed" /\ reg' = painted
        /\ next' = FirstRegion(b) /\ away' = [i \in DOMAIN spans |-> 0] /\ stacks' = <<>>
    BY <1>7 DEF StartWatershed, Goto
  <2>2. away' \in Numbers(n) /\ stacks' \in Seq(Seq(Nat))
    BY <1>5, <2>1 DEF Numbers
  <2> QED
    BY <1>1, <1>3, <1>6, <2>1, <2>2
    DEF RegionInv, RegionParts, Solids, Dividing, NoGroundLeft, FieldKept, Planned
<1>8. CASE StartSweeps
  <2>1. /\ stage' = "rows" /\ plan.builder # "watershed" /\ reg' = painted
        /\ next' = FirstRegion(b) /\ level' = b
    BY <1>8 DEF StartSweeps, Goto
  <2>2. SweptSoFar'
    <3>1. \A i \in 1..n : spans[i].z \in Int
      <4>1. \A i \in 1..n : spans[i] \in OpenSpan
        BY <1>3, <1>5 DEF Field
      <4> QED
        BY <4>1 DEF OpenSpan
    <3>2. \A i \in 1..n : spans[i].z < b => ~Inner(spans[i], b)
      BY <1>5, <3>1 DEF Inner
    <3> QED
      BY <1>1, <1>6, <2>1, <3>2 DEF SweptSoFar, FieldKept
  <2> QED
    BY <1>1, <1>3, <1>5, <1>6, <2>1, <2>2
    DEF RegionInv, RegionParts, Solids, Dividing, NoGroundLeft, FieldKept, Planned
<1> QED
  BY <1>4, <1>7, <1>8

\* A level of the watershed keeps the types of its data.
LEMMA LevelKeeps ==
    ASSUME RegionParts, Level
    PROVE  RegionInv'
<1> DEFINE n == Len(spans)
           lower == Higher(level - 2, 0)
           sorted == IF Len(stacks) <= 1 THEN Sorted(spans, areas, dist, reg, lower)
                     ELSE <<stacks[2] \o Free(reg, stacks[1])>> \o SubSeq(stacks, 3, Len(stacks))
           rounds == IF lower > 0 THEN ExpandRounds ELSE n + 1
           grown == Expand(con, areas, [reg |-> reg, away |-> away], Range(sorted[1]), rounds)
           seeded == Seeded(con, areas, dist, lower, sorted[1],
                            [reg |-> grown.reg, away |-> grown.away, next |-> next])
<1>1. /\ stage = "levels" /\ stage' = stage /\ FieldKept
      /\ stacks' = sorted /\ reg' = seeded.reg /\ away' = seeded.away /\ next' = seeded.next
  BY Zenon DEF Level, At, fieldVars, chfVars, FieldKept
<1>2. /\ Field /\ reg \in Numbers(n) /\ away \in Numbers(n) /\ next \in Nat \ {0}
      /\ stacks \in Seq(Seq(Nat)) /\ Planned("watershed")
  BY <1>1 DEF RegionParts, Solids, Dividing
<1>3. n \in Nat /\ DOMAIN spans = 1..n /\ rounds \in Nat
  BY <1>2, PartitionAssumption DEF Field
<1>4. sorted \in Seq(Seq(Nat)) /\ sorted[1] \in Seq(Nat)
  <2>1. CASE Len(stacks) <= 1
    <3>1. sorted \in Seq(Seq(Nat)) /\ Len(sorted) >= 1
      BY <1>3, <2>1, SortedType
    <3> HIDE DEF sorted
    <3> QED
      BY <3>1
  <2>2. CASE ~(Len(stacks) <= 1)
    <3>1. /\ stacks[1] \in Seq(Nat) /\ stacks[2] \in Seq(Nat)
          /\ SubSeq(stacks, 3, Len(stacks)) \in Seq(Seq(Nat))
      BY <1>2, <2>2
    <3>2. Free(reg, stacks[1]) \in Seq(Nat)
      BY <3>1, PickedType DEF Free
    <3> DEFINE first == stacks[2] \o Free(reg, stacks[1])
               rest == SubSeq(stacks, 3, Len(stacks))
    <3>3. first \in Seq(Nat)
      BY <3>1, <3>2
    <3>4. sorted = <<first>> \o rest /\ rest \in Seq(Seq(Nat))
      BY <2>2, <3>1
    <3> HIDE DEF sorted, first, rest
    <3>5. <<first>> \in Seq(Seq(Nat))
      BY <3>3
    <3>6. <<first>> \o rest \in Seq(Seq(Nat)) /\ (<<first>> \o rest)[1] = first
      BY <3>4, <3>5
    <3> QED
      BY <3>3, <3>4, <3>6
  <2> QED
    BY <2>1, <2>2
<1> HIDE DEF sorted, rounds, lower
<1>5. grown \in Expansion(n)
  <2>1. [reg |-> reg, away |-> away] \in Expansion(n) /\ con \in Nets(n)
    BY <1>2 DEF Expansion, Field
  <2> HIDE DEF n
  <2> QED
    BY <1>3, <2>1, ExpandLemma
<1> HIDE DEF grown
<1>6. seeded \in Seeding(n)
  <2>1. [reg |-> grown.reg, away |-> grown.away, next |-> next] \in Seeding(n)
    BY <1>2, <1>5 DEF Expansion, Seeding
  <2> QED
    BY <1>3, <1>4, <2>1, SeededType
<1> HIDE DEF seeded
<1>7. reg' \in Numbers(n) /\ away' \in Numbers(n) /\ next' \in Nat \ {0}
  BY <1>1, <1>6 DEF Seeding
<1>8. Field'
  BY <1>1, <1>2 DEF Field, FieldKept, OnGrid
<1> QED
  BY <1>1, <1>2, <1>4, <1>7, <1>8
  DEF RegionInv, RegionParts, Solids, Dividing, NoGroundLeft, FieldKept, Planned

\* The last expansion does not end before no cell finds a region.
LEMMA ExpandAllDivides ==
    ASSUME RegionParts, ExpandAll
    PROVE  RegionInv'
<1> DEFINE n == Len(spans)
           left == {i \in DOMAIN reg : reg[i] = 0 /\ areas[i] # NullArea}
           before == [reg |-> reg, away |-> away]
           grown == Expand(con, areas, before, left, n + 1)
<1>1. /\ stage = "levels" /\ stage' = "divided" /\ FieldKept
      /\ reg' = grown.reg /\ away' = grown.away /\ next' = next
  BY Zenon DEF ExpandAll, At, Goto, fieldVars, chfVars, FieldKept
<1>2. /\ Field /\ reg \in Numbers(n) /\ away \in Numbers(n) /\ next \in Nat \ {0}
      /\ Planned("watershed")
  BY <1>1 DEF RegionParts, Solids, Dividing
<1>3. n \in Nat /\ con \in Nets(n) /\ DOMAIN reg = 1..n
  BY <1>2 DEF Field, Numbers
<1>4. /\ grown \in Expansion(n) /\ Bare(n, grown) \subseteq Bare(n, before)
      /\ Taken(con, areas, grown, left) \cap 1..n = {}
  <2>1. before \in Expansion(n)
    BY <1>2 DEF Expansion
  <2> HIDE DEF n, before, left
  <2> QED
    BY <1>3, <2>1, ExpandLemma
<1>5. reg' \in Numbers(n) /\ DOMAIN reg' = 1..n /\ grown.away \in Numbers(n)
  <2> HIDE DEF grown
  <2> QED
    BY <1>1, <1>4 DEF Expansion, Numbers
<1>6. ASSUME NEW i \in 1..n, areas[i] # NullArea, reg'[i] = 0,
             NEW j \in Linked(con, i), areas[j] = areas[i]
      PROVE  reg'[j] \notin RegionIds'
  <2> HIDE DEF grown
  <2>1. i \in left
    BY <1>1, <1>3, <1>4, <1>6 DEF Bare
  <2>2. Nearest(con, areas, grown.reg, grown.away, i) = None
    BY <1>1, <1>4, <1>6, <2>1 DEF Taken
  <2>3. PICK d \in Dirs : j = con[i][d] /\ j # None
    BY <1>6 DEF Linked
  <2>4. ~Joinable(con, areas, grown.reg, i, d)
    BY <1>1, <1>3, <1>5, <1>6, <2>2, NearestLemma DEF Joinable
  <2>5. j \in 1..n
    BY <1>3, <2>3 DEF Nets, None
  <2>6. reg'[j] \in Nat
    BY <1>5, <2>5 DEF Numbers
  <2> QED
    BY <1>1, <1>6, <2>3, <2>4, <2>6 DEF Joinable, RegionIds
<1>7. NoGroundLeft'
  BY <1>1, <1>2, <1>5, <1>6 DEF NoGroundLeft, FieldKept, Planned
<1>8. Field'
  BY <1>1, <1>2 DEF Field, FieldKept, OnGrid
<1> QED
  BY <1>1, <1>2, <1>5, <1>7, <1>8 DEF RegionInv, RegionParts, Solids, Dividing, FieldKept

\* A row that is swept has regions; when the last one is, so has all ground.
LEMMA RowsKeep ==
    ASSUME RegionParts, Row \/ RowsDone
    PROVE  RegionInv'
<1> DEFINE n == Len(spans)
           b == plan.border
           row == SweepRow(spans, con, areas, reg, level, b, next)
           numbered == Renumbered(spans, row, level, b, next)
<1>1. FieldKept /\ stage = "rows"
  BY Zenon DEF Row, RowsDone, fieldVars, chfVars, regionVars, FieldKept, At
<1>2. /\ Field /\ reg \in Numbers(n) /\ next \in Nat \ {0}
      /\ ~Planned("watershed") /\ level \in Nat /\ SweptSoFar
  BY <1>1 DEF RegionParts, Solids, Dividing
<1>3. /\ n \in Nat /\ DOMAIN spans = 1..n /\ con \in Nets(n) /\ DOMAIN reg = 1..n
      /\ b \in Nat /\ Height \in Nat
  BY <1>2, RegionAssumption, GridAssumption DEF Field, RegionParts, Numbers
<1>4. Field'
  BY <1>1, <1>2 DEF Field, FieldKept, OnGrid
<1>5. CASE Row /\ stage' = "panic"
  BY <1>5 DEF RegionInv, RegionStages
<1>6. CASE Row /\ stage' # "panic"
  <2>1. /\ stage' = "rows" /\ reg' = numbered /\ next' = NextId(row, next) /\ level' = level + 1
    <3>1. ~(Len(row.sweeps) > Higher(Width, Height))
      BY <1>6, Zenon DEF Row, Goto
    <3> QED
      BY <1>1, <1>6, <3>1, Zenon DEF Row
  <2>2. /\ row \in Rows(n, next)
        /\ \A i \in 1..n : IF i \in RowSpans(spans, areas, level, b) THEN row.reg[i] # 0
                            ELSE row.reg[i] = reg[i]
    <3> HIDE DEF row
    <3>1. row = SweepRow(spans, con, areas, reg, level, b, next)
      BY DEF row
    <3> HIDE DEF n, b
    <3> QED
      BY <1>2, <1>3, <3>1, SweepRowLemma DEF n
  <2> HIDE DEF row
  <2>3. numbered \in Numbers(n) /\ \A i \in 1..n : row.reg[i] # 0 => numbered[i] # 0
    BY <1>2, <1>3, <2>2, RenumberedLemma
  <2>4. next' \in Nat \ {0}
    BY <1>2, <1>3, <2>1, <2>2, IdsType
  <2>5. SweptSoFar'
    <3>1. ASSUME NEW i \in 1..n, areas[i] # NullArea, ~Inner(spans[i], b) \/ spans[i].z < level + 1
          PROVE  numbered[i] # 0
      <4>1. spans[i].z \in Int
        <5>1. spans[i] \in OpenSpan
          BY <1>2, <1>3 DEF Field
        <5> QED
          BY <5>1 DEF OpenSpan
      <4>2. i \in RowSpans(spans, areas, level, b) \/ ~Inner(spans[i], b) \/ spans[i].z < level
        BY <1>2, <1>3, <3>1, <4>1 DEF RowSpans, Inner
      <4>3. row.reg[i] # 0
        BY <1>2, <2>2, <3>1, <4>2 DEF SweptSoFar
      <4> QED
        BY <2>3, <4>3
    <3> HIDE DEF numbered
    <3> QED
      BY <1>1, <2>1, <3>1 DEF SweptSoFar, FieldKept
  <2> HIDE DEF numbered
  <2> QED
    BY <1>1, <1>2, <1>4, <2>1, <2>3, <2>4, <2>5
    DEF RegionInv, RegionParts, Solids, Dividing, NoGroundLeft, FieldKept, Planned
<1>7. CASE RowsDone
  <2>1. stage' = "divided" /\ level >= Height - b /\ UNCHANGED <<reg, next>>
    BY <1>7 DEF RowsDone, Goto, regionVars
  <2>2. \A i \in 1..n : areas[i] # NullArea => reg[i] # 0
    <3> SUFFICES ASSUME NEW i \in 1..n, areas[i] # NullArea PROVE reg[i] # 0
      OBVIOUS
    <3>1. spans[i].z \in Int
      <4>1. spans[i] \in OpenSpan
        BY <1>2, <1>3 DEF Field
      <4> QED
        BY <4>1 DEF OpenSpan
    <3>2. ~Inner(spans[i], b) \/ spans[i].z < level
      BY <1>2, <1>3, <2>1, <3>1 DEF Inner
    <3> QED
      BY <1>2, <3>2 DEF SweptSoFar
  <2>3. NoGroundLeft'
    BY <1>1, <1>3, <2>1, <2>2 DEF NoGroundLeft, FieldKept
  <2> QED
    BY <1>1, <1>2, <1>4, <2>1, <2>3 DEF RegionInv, RegionParts, Solids, Dividing, FieldKept
<1> QED
  BY <1>5, <1>6, <1>7

\* Whoever divides the field leaves no ground without a region: the sweeps give
\* every span of the ground one, and the watershed leaves only spans that have
\* no region beside them to join (BuildRegions, BuildRegionsMonotone,
\* BuildLayerRegions).
THEOREM GroundIsDivided == RegionBuildSpec => []NoGroundLeft
<1>1. RegionInv /\ [RegionStep \/ Later]_vars => RegionInv'
  <2> SUFFICES ASSUME RegionInv, [RegionStep \/ Later]_vars PROVE RegionInv'
    OBVIOUS
  <2>1. CASE Later
    BY <2>1 DEF Later, RegionInv
  <2>2. CASE RegionStep
    <3>1. RegionParts
      <4>1. stage \in RegionStages
        <5>1. CASE FieldStep
          BY <5>1, Zenon DEF FieldStep, RasterizeTriangles, Filters, BuildCompactHeightfield, MarkAreas,
                ErodeWalkableArea, MedianFilterWalkableArea, At, RegionStages
        <5>2. CASE BuildDistanceField \/ StartWatershed \/ StartSweeps \/ Row \/ RowsDone
          BY <5>2, Zenon DEF BuildDistanceField, StartWatershed, StartSweeps, Row, RowsDone, At,
                RegionStages
        <5>3. CASE Level \/ ExpandAll
          BY <5>3, Zenon DEF Level, ExpandAll, At, RegionStages
        <5> QED
          BY <2>2, <5>1, <5>2, <5>3 DEF RegionStep
      <4> QED
        BY <4>1 DEF RegionInv
    <3> QED
      BY <2>2, <3>1, FieldStepKeeps, StartsKeep, LevelKeeps, ExpandAllDivides, RowsKeep
      DEF RegionStep
  <2>3. CASE UNCHANGED vars
    <3>1. UNCHANGED <<fieldVars, stage, plan, chfVars, areas, regionVars>>
      BY <2>3 DEF vars
    <3>2. Pile => Pile'
      BY <3>1 DEF fieldVars, Pile, KnownShapes, ColumnsAreUnions, Pieces
    <3>3. Field => Field'
      BY <3>1 DEF chfVars, Field, OnGrid
    <3>4. SweptSoFar => SweptSoFar'
      BY <3>1 DEF chfVars, regionVars, SweptSoFar
    <3>5. NoGroundLeft => NoGroundLeft'
      BY <3>1 DEF chfVars, regionVars, NoGroundLeft, RegionIds
    <3> QED
      BY <3>1, <3>2, <3>3, <3>4, <3>5
      DEF RegionInv, RegionParts, chfVars, regionVars, Planned
  <2> QED
    BY <2>1, <2>2, <2>3
<1>2. RegionInv => NoGroundLeft
  BY DEF RegionInv, RegionParts, NoGroundLeft, RegionStages
<1> QED
  BY <1>1, <1>2, RegionInit, PTL DEF RegionBuildSpec

----------------------------------------------------------------------------
(* The edges of polygons *)

\* N polygons over numbered vertices.
Polygonal(polys, N) ==
    /\ N \in Nat /\ DOMAIN polys = 1..N
    /\ \A p \in 1..N : polys[p].verts \in Seq(Nat)

\* The edges from one vertex to another are edges of the polygons.
LEMMA AlongLemma ==
    ASSUME NEW polys, NEW N, Polygonal(polys, N), NEW a, NEW b, NEW e \in Along(polys, a, b)
    PROVE  /\ e = <<e[1], e[2]>> /\ e[1] \in 1..N /\ e[2] \in 1..Len(polys[e[1]].verts)
           /\ polys[e[1]].verts[e[2]] = a /\ Place(polys[e[1]].verts, e[2] + 1) = b
<1>1. PICK p \in 1..N : \E k \in DOMAIN polys[p].verts :
         e = <<p, k>> /\ polys[p].verts[k] = a /\ Place(polys[p].verts, k + 1) = b
  BY DEF Along, Polygonal
<1>2. DOMAIN polys[p].verts = 1..Len(polys[p].verts)
  BY <1>1 DEF Polygonal
<1> QED
  BY <1>1, <1>2

\* Those edges have a first and a last one.
LEMMA Extremes ==
    ASSUME NEW polys, NEW N, Polygonal(polys, N), NEW a, NEW b,
           NEW S \in SUBSET Along(polys, a, b), S # {}
    PROVE  First(S) \in S /\ Newest(S) \in S
<1> DEFINE P == {e[1] : e \in S}
           K(p) == {e[2] : e \in {x \in S : x[1] = p}}
<1>1. \A e \in S : /\ e = <<e[1], e[2]>> /\ e[1] \in 1..N
                   /\ e[2] \in 1..Len(polys[e[1]].verts) /\ Len(polys[e[1]].verts) \in Nat
  BY AlongLemma DEF Polygonal
<1>2. P \subseteq 1..N /\ P # {} /\ N \in Nat
  BY <1>1 DEF Polygonal
<1>3. ASSUME NEW p \in P
      PROVE  /\ K(p) \subseteq Nat /\ K(p) # {} /\ Len(polys[p].verts) \in Nat
             /\ \A k \in K(p) : k <= Len(polys[p].verts)
             /\ \A k \in K(p) : <<p, k>> \in S
  <2>1. ASSUME NEW k \in K(p)
        PROVE  k \in Nat /\ k <= Len(polys[p].verts) /\ <<p, k>> \in S
    <3>1. PICK e \in S : e[1] = p /\ e[2] = k
      BY <2>1
    <3> QED
      BY <1>1, <3>1
  <2>2. PICK e \in S : e[1] = p
    BY <1>3
  <2>3. e[2] \in K(p)
    BY <2>2
  <2>4. Len(polys[p].verts) \in Nat
    BY <1>1, <2>2
  <2> QED
    BY <2>1, <2>3, <2>4
<1>4. First(S) \in S
  <2>1. PICK p \in P : \A x \in P : p <= x
    <3>1. P \subseteq Nat
      BY <1>2
    <3> HIDE DEF P
    <3> QED
      BY <1>2, <3>1, Smallest
  <2>2. PICK k \in K(p) : \A x \in K(p) : k <= x
    <3> HIDE DEF K
    <3> QED
      BY <1>3, Smallest
  <2>3. <<p, k>> \in S
    BY <1>3
  <2>4. ASSUME NEW f \in S \ {<<p, k>>} PROVE Precedes(<<p, k>>, f)
    <3>1. f = <<f[1], f[2]>> /\ f[1] \in P /\ p <= f[1] /\ f[1] \in Nat /\ f[2] \in Nat /\ p \in Nat
      BY <1>1, <1>2, <2>1
    <3>2. f[1] = p => f[2] \in K(p) /\ k <= f[2] /\ k \in Nat
      BY <1>3, <2>2
    <3>3. f[1] = p => f[2] # k
      BY <3>1
    <3> QED
      BY <3>1, <3>2, <3>3 DEF Precedes
  <2> QED
    BY <2>3, <2>4 DEF First
<1>5. Newest(S) \in S
  <2>1. PICK p \in P : \A x \in P : x <= p
    <3>1. P \subseteq Nat /\ \A x \in P : x <= N
      BY <1>2
    <3> HIDE DEF P
    <3> QED
      BY <1>2, <3>1, Largest
  <2>2. PICK k \in K(p) : \A x \in K(p) : x <= k
    <3> HIDE DEF K
    <3> QED
      BY <1>3, Largest
  <2>3. <<p, k>> \in S
    BY <1>3
  <2>4. ASSUME NEW f \in S \ {<<p, k>>} PROVE Precedes(f, <<p, k>>)
    <3>1. f = <<f[1], f[2]>> /\ f[1] \in P /\ f[1] <= p /\ f[1] \in Nat /\ f[2] \in Nat /\ p \in Nat
      BY <1>1, <1>2, <2>1
    <3>2. f[1] = p => f[2] \in K(p) /\ f[2] <= k /\ k \in Nat
      BY <1>3, <2>2
    <3>3. f[1] = p => f[2] # k
      BY <3>1
    <3> QED
      BY <3>1, <3>2, <3>3 DEF Precedes
  <2> QED
    BY <2>3, <2>4 DEF Newest
<1> QED
  BY <1>4, <1>5

\* ... and are finitely many.
LEMMA AlongFinite ==
    ASSUME NEW polys, NEW N, Polygonal(polys, N), NEW a, NEW b
    PROVE  IsFiniteSet(Along(polys, a, b))
<1> DEFINE EdgesOf(p) == {<<p, k>> : k \in {n \in DOMAIN polys[p].verts :
                        polys[p].verts[n] = a /\ Place(polys[p].verts, n + 1) = b}}
           edges == [p \in 1..N |-> EdgesOf(p)]
           rows == {EdgesOf(p) : p \in 1..N}
<1>1. IsFiniteSet(1..N) /\ N \in Nat
  BY FS_Interval DEF Polygonal
<1>2. IsFiniteSet(rows)
  <2>1. edges \in Surjection(1..N, rows)
    BY DEF Surjection
  <2> HIDE DEF edges, rows
  <2> QED
    BY <1>1, <2>1, FS_Surjection
<1>3. ASSUME NEW p \in 1..N PROVE IsFiniteSet(EdgesOf(p))
  <2> DEFINE places == 1..Len(polys[p].verts)
  <2>1. IsFiniteSet(places)
    BY FS_Interval DEF Polygonal
  <2>2. IsFiniteSet({p} \X places)
    BY <2>1, FS_Singleton, FS_Product
  <2>3. EdgesOf(p) \subseteq {p} \X places
    BY DEF Polygonal
  <2> QED
    BY <2>2, <2>3, FS_Subset
<1>4. \A T \in rows : IsFiniteSet(T)
  BY <1>3
<1>5. Along(polys, a, b) = UNION rows
  BY DEF Along, Polygonal
<1> HIDE DEF rows
<1> QED
  BY <1>2, <1>4, <1>5, FS_UNION

\* What holds of the edges while they claim each other: what has met is neither
\* open nor left, and meets one edge only.
Claims(notes, backs) ==
    {s \in [open : SUBSET notes, left : SUBSET backs, met : SUBSET (notes \X backs)] :
        /\ \A m \in s.met : m[1] \notin s.open /\ m[2] \notin s.left
        /\ \A l, m \in s.met : l[1] = m[1] \/ l[2] = m[2] => l = m}

LEMMA ClaimedLemma ==
    ASSUME NEW polys, NEW N, Polygonal(polys, N), NEW a, NEW b,
           NEW s \in Claims(Along(polys, a, b), Along(polys, b, a)), s.left # {}
    PROVE  /\ Claimed(s) \in Claims(Along(polys, a, b), Along(polys, b, a))
           /\ Claimed(s).left = s.left \ {First(s.left)} /\ First(s.left) \in s.left
<1> DEFINE e == First(s.left)
           n == Newest(s.open)
           notes == Along(polys, a, b)
           backs == Along(polys, b, a)
           States == [open : SUBSET notes, left : SUBSET backs, met : SUBSET (notes \X backs)]
<1>1. s \in States /\ s.open \in SUBSET notes /\ s.left \in SUBSET backs
  BY DEF Claims
<1>2. e \in s.left
  BY <1>1, Extremes
<1>3. CASE s.open = {} \/ n[1] = e[1]
  <2>1. Claimed(s) = [open |-> s.open, left |-> s.left \ {e}, met |-> s.met]
    BY <1>1, <1>3 DEF Claimed
  <2> HIDE DEF e, n, notes, backs
  <2> QED
    BY <1>1, <1>2, <2>1 DEF Claims, e, notes, backs
<1>4. CASE ~(s.open = {} \/ n[1] = e[1])
  <2>1. n \in s.open
    BY <1>1, <1>4, Extremes
  <2>2. Claimed(s) = [open |-> s.open \ {n}, left |-> s.left \ {e}, met |-> s.met \cup {<<n, e>>}]
    BY <1>4 DEF Claimed
  <2> HIDE DEF e, n
  <2>3. \A l \in s.met : l[1] # n /\ l[2] # e
    BY <1>2, <2>1 DEF Claims
  <2>4. \A l, m \in s.met \cup {<<n, e>>} : l[1] = m[1] \/ l[2] = m[2] => l = m
    BY <2>3 DEF Claims
  <2>5. \A m \in s.met \cup {<<n, e>>} : m[1] \notin s.open \ {n} /\ m[2] \notin s.left \ {e}
    BY DEF Claims
  <2>6. s.met \cup {<<n, e>>} \in SUBSET (notes \X backs)
    BY <1>1, <1>2, <2>1
  <2>7. Claimed(s) \in States
    BY <1>1, <2>2, <2>6
  <2> HIDE DEF notes, backs
  <2> QED
    BY <1>2, <2>2, <2>4, <2>5, <2>7 DEF Claims, e, notes, backs
<1> QED
  BY <1>3, <1>4

\* The pairs of edges run between the two vertices, one each way, and no edge
\* is in two of them.
LEMMA EdgePairsLemma ==
    ASSUME NEW polys, NEW N, Polygonal(polys, N), NEW a, NEW b
    PROVE  /\ EdgePairs(polys, a, b) \subseteq Along(polys, a, b) \X Along(polys, b, a)
           /\ \A l, m \in EdgePairs(polys, a, b) : l[1] = m[1] \/ l[2] = m[2] => l = m
<1> DEFINE notes == Along(polys, a, b)
           backs == Along(polys, b, a)
           n == Cardinality(backs)
           S == Claims(notes, backs)
           start == [open |-> notes, left |-> backs, met |-> {}]
           Guarded == [s \in S |-> IF s.left = {} THEN s ELSE Claimed(s)]
           step == [k \in 1..n |-> Guarded]
           Eq(g) == g = [k \in 0..n |-> IF k = 0 THEN start ELSE Claimed(g[k - 1])]
           After == CHOOSE g : Eq(g)
<1>1. n \in Nat /\ IsFiniteSet(backs)
  BY AlongFinite, FS_CardinalityType
<1>2. start \in S
  BY DEF Claims
<1>3. \A s \in S : s.left # {} => /\ Claimed(s) \in S /\ Claimed(s).left = s.left \ {First(s.left)}
                                 /\ First(s.left) \in s.left
  BY ClaimedLemma
<1>4. PICK f \in [0..n -> S] : IsRun(f, n, start, step)
  <2>1. step \in [1..n -> [S -> S]]
    BY <1>3
  <2> HIDE DEF step, start, S, n
  <2> QED
    BY <1>1, <1>2, <2>1, Recursion
<1>5. /\ f[0] = start
      /\ \A k \in 1..n : f[k] = IF f[k - 1].left = {} THEN f[k - 1] ELSE Claimed(f[k - 1])
  <2>1. f[0] = start /\ \A k \in 1..n : f[k] = step[k][f[k - 1]]
    BY <1>4 DEF IsRun
  <2>2. \A k \in 1..n : k - 1 \in 0..n
    BY <1>1
  <2>3. \A k \in 1..n : f[k - 1] \in S
    BY <1>4, <2>2
  <2> HIDE DEF S, start, n
  <2> QED
    BY <2>1, <2>3
<1>6. \A k \in 0..n : IsFiniteSet(f[k].left) /\ Cardinality(f[k].left) = n - k
  <2> DEFINE T == {k \in 0..n : IsFiniteSet(f[k].left) /\ Cardinality(f[k].left) = n - k}
  <2>1. 0 \in T
    BY <1>1, <1>5
  <2>2. ASSUME NEW k \in 1..n, k - 1 \in T PROVE k \in T
    <3> DEFINE s == f[k - 1]
    <3>1. s \in S /\ IsFiniteSet(s.left) /\ Cardinality(s.left) = n - k + 1 /\ n - k \in Nat
      BY <1>1, <1>4, <2>2
    <3>2. s.left # {}
      BY <3>1, FS_EmptySet
    <3>3. f[k].left = s.left \ {First(s.left)} /\ First(s.left) \in s.left
      BY <1>3, <1>5, <3>1, <3>2
    <3> HIDE DEF s, n
    <3>4. IsFiniteSet(f[k].left) /\ Cardinality(f[k].left) = Cardinality(s.left) - 1
      BY <3>1, <3>3, FS_RemoveElement
    <3>5. n - k + 1 - 1 = n - k
      BY <1>1
    <3> QED
      BY <1>1, <3>1, <3>4, <3>5
  <2> HIDE DEF T, n
  <2>3. 0..n \subseteq T
    BY <1>1, <2>1, <2>2, UpTo
  <2> QED
    BY <2>3 DEF T
<1>7. Eq(f)
  <2>1. ASSUME NEW k \in 1..n PROVE f[k] = Claimed(f[k - 1])
    <3>1. Cardinality(f[k - 1].left) = n - (k - 1) /\ n - (k - 1) > 0 /\ k - 1 \in 0..n
      BY <1>1, <1>6
    <3> HIDE DEF n
    <3>2. n - (k - 1) # 0
      BY <1>1
    <3>3. f[k - 1].left # {}
      BY <3>1, <3>2, FS_EmptySet, Zenon
    <3> QED
      BY <1>5, <3>3
  <2> HIDE DEF n, start
  <2> QED
    BY <1>1, <1>4, <1>5, <2>1
<1>8. Eq(After)
  BY <1>7
<1>9. EdgePairs(polys, a, b) = After[n].met
  BY DEF EdgePairs
<1>10. After[0] = start /\ \A k \in 1..n : After[k] = Claimed(After[k - 1])
  <2> HIDE DEF After, n, start
  <2> QED
    BY <1>1, <1>8
<1>11. After[n] = f[n]
  <2> DEFINE T == {k \in 0..n : After[k] = f[k]}
  <2> HIDE DEF After, n, start
  <2>1. 0 \in T
    BY <1>1, <1>5, <1>10
  <2>2. \A k \in 1..n : f[k] = Claimed(f[k - 1])
    BY <1>1, <1>7
  <2>3. ASSUME NEW k \in 1..n, k - 1 \in T PROVE k \in T
    BY <1>1, <1>10, <2>2, <2>3
  <2> HIDE DEF T
  <2>4. 0..n \subseteq T
    BY <1>1, <2>1, <2>3, UpTo
  <2>5. n \in 0..n
    BY <1>1
  <2> QED
    BY <2>4, <2>5 DEF T
<1>12. f[n] \in S
  <2> HIDE DEF n, S
  <2> QED
    BY <1>1, <1>4
<1> HIDE DEF After, n
<1> QED
  BY <1>9, <1>11, <1>12 DEF Claims

\* An edge has at most one edge opposite, which runs the other way and has it
\* opposite.
LEMMA OppositeLemma ==
    ASSUME NEW polys, NEW N, Polygonal(polys, N),
           NEW p \in 1..N, NEW k \in DOMAIN polys[p].verts,
           NEW f \in OppositeEdges(polys, <<p, k>>)
    PROVE  /\ f = <<f[1], f[2]>> /\ f[1] \in 1..N /\ f[2] \in DOMAIN polys[f[1]].verts
           /\ polys[f[1]].verts[f[2]] = Place(polys[p].verts, k + 1)
           /\ Place(polys[f[1]].verts, f[2] + 1) = polys[p].verts[k]
           /\ OppositeEdges(polys, <<p, k>>) = {f}
           /\ OppositeEdges(polys, f) = {<<p, k>>}
<1> DEFINE e == <<p, k>>
           a == polys[p].verts[k]
           b == Place(polys[p].verts, k + 1)
           there == Along(polys, a, b)
           back == Along(polys, b, a)
           Meeting(x) == IF a < b THEN Opposed(EdgePairs(polys, a, b), x)
                         ELSE Opposed(EdgePairs(polys, b, a), x)
<1>1. a \in Nat /\ b \in Nat /\ e \in there
  <2> DEFINE ring == polys[p].verts
  <2>1. ring \in Seq(Nat) /\ k \in 1..Len(ring)
    BY DEF Polygonal
  <2>2. k % Len(ring) \in 0..(Len(ring) - 1)
    BY <2>1
  <2>3. Place(ring, k + 1) = ring[(k % Len(ring)) + 1]
    BY <2>1 DEF Place
  <2>4. e \in there
    BY DEF Along, Polygonal
  <2>5. b \in Nat
    <3>1. (k % Len(ring)) + 1 \in 1..Len(ring) /\ b = ring[(k % Len(ring)) + 1]
      BY <2>1, <2>2, <2>3
    <3> HIDE DEF ring, b
    <3> QED
      BY <2>1, <3>1
  <2>6. a \in Nat
    BY <2>1
  <2> HIDE DEF a, b, there
  <2> QED
    BY <2>4, <2>5, <2>6
<1>2. OppositeEdges(polys, e) = (IF a = b THEN {} ELSE Meeting(e))
  BY DEF OppositeEdges
<1>3. a # b /\ f \in Meeting(e)
  BY <1>2
<1>4. \A x : ~(x \in there /\ x \in back)
  BY <1>3, AlongLemma
<1>5. f \in back /\ Meeting(e) = {f} /\ Meeting(f) = {e}
  <2>1. CASE a < b
    <3> DEFINE pairs == EdgePairs(polys, a, b)
    <3>1. pairs \subseteq there \X back /\ \A l, m \in pairs : l[1] = m[1] \/ l[2] = m[2] => l = m
      BY EdgePairsLemma
    <3>2. f \in Opposed(pairs, e)
      BY <1>3, <2>1
    <3> HIDE DEF pairs, there, back
    <3>3. PICK m \in pairs : m[1] = e /\ m[2] = f
      BY <1>1, <1>4, <3>1, <3>2 DEF Opposed
    <3>4. f \in back /\ Opposed(pairs, e) = {f} /\ Opposed(pairs, f) = {e}
      BY <1>1, <1>4, <3>1, <3>3 DEF Opposed
    <3> QED
      BY <2>1, <3>4 DEF pairs
  <2>2. CASE ~(a < b)
    <3> DEFINE pairs == EdgePairs(polys, b, a)
    <3>1. pairs \subseteq back \X there /\ \A l, m \in pairs : l[1] = m[1] \/ l[2] = m[2] => l = m
      BY EdgePairsLemma
    <3>2. f \in Opposed(pairs, e)
      BY <1>3, <2>2
    <3> HIDE DEF pairs, there, back
    <3>3. PICK m \in pairs : m[2] = e /\ m[1] = f
      BY <1>1, <1>4, <3>1, <3>2 DEF Opposed
    <3>4. f \in back /\ Opposed(pairs, e) = {f} /\ Opposed(pairs, f) = {e}
      BY <1>1, <1>4, <3>1, <3>3 DEF Opposed
    <3> QED
      BY <2>2, <3>4 DEF pairs
  <2> QED
    BY <2>1, <2>2
<1>6. /\ f = <<f[1], f[2]>> /\ f[1] \in 1..N /\ f[2] \in 1..Len(polys[f[1]].verts)
      /\ polys[f[1]].verts[f[2]] = b /\ Place(polys[f[1]].verts, f[2] + 1) = a
  BY <1>5, AlongLemma
<1>7. OppositeEdges(polys, f) = {e}
  <2>1. OppositeEdges(polys, f) =
           (IF b = a THEN {}
            ELSE Opposed(IF b < a THEN EdgePairs(polys, b, a) ELSE EdgePairs(polys, a, b), f))
    BY <1>6 DEF OppositeEdges
  <2>2. (b < a) <=> ~(a < b)
    BY <1>1, <1>3
  <2> HIDE DEF a, b, e
  <2> QED
    BY <1>3, <1>5, <2>1, <2>2
<1>8. DOMAIN polys[f[1]].verts = 1..Len(polys[f[1]].verts)
  BY <1>6 DEF Polygonal
<1> QED
  BY <1>2, <1>3, <1>5, <1>6, <1>7, <1>8

\* What a mesh may say lies beyond its edges: the neighbours that were found,
\* and where there is none a number that is no polygon's.
Outward(polys, N, beyond) ==
    /\ DOMAIN beyond = 1..N
    /\ \A p \in 1..N : /\ DOMAIN beyond[p] = DOMAIN polys[p].verts
                       /\ \A k \in DOMAIN beyond[p] :
                             \/ OppositeEdges(polys, <<p, k>>) = {} /\ beyond[p][k] + 1 \notin 1..N
                             \/ \E f \in OppositeEdges(polys, <<p, k>>) : beyond[p][k] = f[1] - 1

LEMMA OutwardLemma ==
    ASSUME NEW polys, NEW N, Polygonal(polys, N), NEW beyond, Outward(polys, N, beyond)
    PROVE  Mutually(polys, beyond)
<1> SUFFICES ASSUME NEW p \in 1..N, NEW k \in DOMAIN beyond[p], beyond[p][k] + 1 \in 1..N
             PROVE  \E m \in DOMAIN beyond[beyond[p][k] + 1] :
                       /\ beyond[beyond[p][k] + 1][m] = p - 1
                       /\ polys[beyond[p][k] + 1].verts[m] = Place(polys[p].verts, k + 1)
                       /\ Place(polys[beyond[p][k] + 1].verts, m + 1) = polys[p].verts[k]
  BY DEF Mutually, Polygonal
<1>1. k \in DOMAIN polys[p].verts
  BY DEF Outward
<1>2. PICK f \in OppositeEdges(polys, <<p, k>>) : beyond[p][k] = f[1] - 1
  BY DEF Outward
<1>3. /\ f = <<f[1], f[2]>> /\ f[1] \in 1..N /\ f[2] \in DOMAIN polys[f[1]].verts
      /\ polys[f[1]].verts[f[2]] = Place(polys[p].verts, k + 1)
      /\ Place(polys[f[1]].verts, f[2] + 1) = polys[p].verts[k]
      /\ OppositeEdges(polys, f) = {<<p, k>>}
  BY <1>1, <1>2, OppositeLemma
<1>4. beyond[p][k] + 1 = f[1]
  BY <1>2, <1>3
<1>5. f[2] \in DOMAIN beyond[f[1]]
  BY <1>3 DEF Outward
<1>6. beyond[f[1]][f[2]] = p - 1
  <2>1. OppositeEdges(polys, <<f[1], f[2]>>) = {<<p, k>>}
    BY <1>3
  <2>2. \E g \in {<<p, k>>} : beyond[f[1]][f[2]] = g[1] - 1
    BY <1>3, <1>5, <2>1 DEF Outward
  <2> QED
    BY <2>2
<1> QED
  BY <1>3, <1>4, <1>5, <1>6

\* The neighbours that are found, with anything but a polygon where there is none.
NoPolygon == {NullIdx} \cup {Portal(side) : side \in 0..3}
Completed(polys, N, beyond) ==
    /\ DOMAIN beyond = 1..N
    /\ \A p \in 1..N :
          /\ DOMAIN beyond[p] = DOMAIN polys[p].verts
          /\ \A k \in DOMAIN polys[p].verts :
                \/ beyond[p][k] = Adjacency(polys)[p][k]
                \/ Adjacency(polys)[p][k] = NullIdx /\ beyond[p][k] \in NoPolygon

LEMMA CompletedLemma ==
    ASSUME NEW polys, NEW N, Polygonal(polys, N), N <= 32768, NEW beyond, Completed(polys, N, beyond)
    PROVE  Mutually(polys, beyond)
<1> DEFINE inner == Adjacency(polys)
<1>1. N \in Nat /\ DOMAIN polys = 1..N
  BY DEF Polygonal
<1>2. NullIdx \in NoPolygon /\ \A x \in NoPolygon : x + 1 \notin 1..N
  BY <1>1 DEF NullIdx, Portal, NoPolygon
<1>3. ASSUME NEW p \in 1..N, NEW k \in DOMAIN polys[p].verts
      PROVE  \/ OppositeEdges(polys, <<p, k>>) = {} /\ inner[p][k] = NullIdx
             \/ /\ inner[p][k] # NullIdx
                /\ \E f \in OppositeEdges(polys, <<p, k>>) : inner[p][k] = f[1] - 1
  <2> DEFINE partners == OppositeEdges(polys, <<p, k>>)
  <2>1. inner[p][k] = IF partners = {} THEN NullIdx ELSE (CHOOSE f \in partners : TRUE)[1] - 1
    BY <1>1 DEF Adjacency
  <2>2. \A f \in partners : f[1] \in 1..N
    BY OppositeLemma
  <2>3. \A f \in partners : f[1] - 1 # NullIdx
    BY <1>1, <2>2 DEF NullIdx
  <2>4. CASE partners = {}
    BY <2>1, <2>4
  <2>5. CASE partners # {}
    <3> DEFINE f == CHOOSE x \in partners : TRUE
    <3>1. f \in partners
      BY <2>5
    <3>2. inner[p][k] = f[1] - 1
      BY <2>1, <2>5
    <3>3. inner[p][k] # NullIdx
      BY <2>3, <3>1, <3>2
    <3> HIDE DEF f, inner
    <3> QED
      BY <3>1, <3>2, <3>3
  <2> QED
    BY <2>4, <2>5
<1>4. Outward(polys, N, beyond)
  <2> HIDE DEF inner
  <2>1. ASSUME NEW p \in 1..N, NEW k \in DOMAIN polys[p].verts
        PROVE  \/ OppositeEdges(polys, <<p, k>>) = {} /\ beyond[p][k] + 1 \notin 1..N
               \/ \E f \in OppositeEdges(polys, <<p, k>>) : beyond[p][k] = f[1] - 1
    <3>1. \/ beyond[p][k] = inner[p][k]
          \/ inner[p][k] = NullIdx /\ beyond[p][k] \in NoPolygon
      BY DEF inner, Completed
    <3>2. \/ OppositeEdges(polys, <<p, k>>) = {} /\ inner[p][k] = NullIdx
          \/ /\ inner[p][k] # NullIdx
             /\ \E f \in OppositeEdges(polys, <<p, k>>) : inner[p][k] = f[1] - 1
      BY <1>3
    <3> QED
      BY <1>2, <3>1, <3>2
  <2> QED
    BY <2>1 DEF Outward, Completed
<1> QED
  BY <1>4, OutwardLemma

\* In every mesh that neighbours are found in, a polygon beyond an edge leads
\* back over the same edge: in the mesh of a tile, with and without portals, and
\* in one that is merged of tiles (buildMeshAdjacency, BuildPolyMesh,
\* MergePolyMeshes).
THEOREM NeighboursLeadBack ==
    ASSUME NEW mesh, NEW N, Polygonal(mesh.polys, N), N <= 32768, NEW w, NEW h, NEW outer,
           \A p \in 1..N : \A k \in DOMAIN mesh.polys[p].verts : outer[p][k] \in NoPolygon
    PROVE  /\ Mutually(mesh.polys, Adjacency(mesh.polys))
           /\ Mutually(mesh.polys, Portals(mesh, Adjacency(mesh.polys), w, h))
           /\ Mutually(mesh.polys, StillOpen(Adjacency(mesh.polys), outer))
<1> DEFINE polys == mesh.polys
           inner == Adjacency(polys)
<1>1. DOMAIN inner = 1..N /\ \A p \in 1..N : DOMAIN inner[p] = DOMAIN polys[p].verts
  BY DEF Adjacency, Polygonal
<1>2. Completed(polys, N, inner)
  <2> HIDE DEF polys
  <2> QED
    BY <1>1 DEF Completed
<1>3. Completed(polys, N, Portals(mesh, inner, w, h))
  <2> DEFINE portals == Portals(mesh, inner, w, h)
             a(p, k) == mesh.verts[polys[p].verts[k] + 1]
             b(p, k) == mesh.verts[Place(polys[p].verts, k + 1) + 1]
             Shown(p, k) == IF inner[p][k] # NullIdx THEN inner[p][k]
                         ELSE IF a(p, k).x = 0 /\ b(p, k).x = 0 THEN Portal(0)
                         ELSE IF a(p, k).z = h /\ b(p, k).z = h THEN Portal(1)
                         ELSE IF a(p, k).x = w /\ b(p, k).x = w THEN Portal(2)
                         ELSE IF a(p, k).z = 0 /\ b(p, k).z = 0 THEN Portal(3)
                         ELSE NullIdx
  <2>1. portals = [p \in DOMAIN inner |-> [k \in DOMAIN inner[p] |-> Shown(p, k)]]
    BY DEF Portals
  <2>2. /\ Portal(0) \in NoPolygon /\ Portal(1) \in NoPolygon /\ Portal(2) \in NoPolygon
        /\ Portal(3) \in NoPolygon /\ NullIdx \in NoPolygon
    BY DEF NoPolygon
  <2>3. ASSUME NEW p, NEW k
        PROVE  Shown(p, k) = inner[p][k] \/ (inner[p][k] = NullIdx /\ Shown(p, k) \in NoPolygon)
    <3> HIDE DEF a, b, inner
    <3> QED
      BY <2>2
  <2>4. DOMAIN portals = 1..N /\ \A p \in 1..N : DOMAIN portals[p] = DOMAIN polys[p].verts
    <3> HIDE DEF Shown, portals, polys, inner
    <3> QED
      BY <1>1, <2>1
  <2>5. \A p \in 1..N : \A k \in DOMAIN polys[p].verts : portals[p][k] = Shown(p, k)
    <3> HIDE DEF Shown, portals, polys, inner
    <3> QED
      BY <1>1, <2>1
  <2> HIDE DEF Shown, portals, polys
  <2>6. Completed(polys, N, portals)
    BY <2>3, <2>4, <2>5 DEF Completed
  <2> QED
    BY <2>6 DEF portals
<1>4. Completed(polys, N, StillOpen(inner, outer))
  <2> DEFINE still == StillOpen(inner, outer)
  <2>1. DOMAIN still = 1..N /\ \A p \in 1..N : DOMAIN still[p] = DOMAIN polys[p].verts
    <3> HIDE DEF inner, polys
    <3> QED
      BY <1>1 DEF StillOpen
  <2>2. ASSUME NEW p \in 1..N, NEW k \in DOMAIN polys[p].verts
        PROVE  still[p][k] = inner[p][k] \/ (inner[p][k] = NullIdx /\ still[p][k] \in NoPolygon)
    <3> HIDE DEF inner
    <3> QED
      BY <1>1 DEF StillOpen
  <2> HIDE DEF still, polys
  <2>3. Completed(polys, N, still)
    BY <2>1, <2>2 DEF Completed
  <2> QED
    BY <2>3 DEF still
<1> HIDE DEF inner
<1> QED
  BY <1>2, <1>3, <1>4, CompletedLemma DEF inner
=============================================================================
