--------------------------- MODULE CorridorProofs ---------------------------
(* Proofs about Corridor for every mesh, every set of paths and every size  *)
(* of the arrays.  A merge joins a piece of the path with a piece of the    *)
(* walk at a polygon of both, and the piece of the path beyond that polygon *)
(* avoids the walk: that is why the seam is linked and does not turn back.  *)
EXTENDS AgentCorridor, Induction

PathType(p) == p \in Seq(Poly \cup {Null}) /\ Len(p) \in 1..MaxPath
WalkType(w) == w \in Seq(Poly) /\ Len(w) \in 1..MaxPath
IsPath(p) == Linked(p) /\ NoTrackback(p)

\* A function on 1..n is a sequence of length n.
LEMMA FunctionIsSeq ==
    ASSUME NEW S, NEW n \in Nat, NEW f \in [1..n -> S]
    PROVE  f \in Seq(S) /\ Len(f) = n /\ DOMAIN f = 1..n
OBVIOUS

\* What a function that takes its values from a up to m, and then from b at
\* an offset of k, has at each place.
LEMMA Pasted ==
    ASSUME NEW S, NEW a \in Seq(S), NEW b \in Seq(S),
           NEW m \in Nat, NEW k \in Int, NEW n \in Nat,
           1 <= m, m <= Len(a), m <= n, 1 <= k + m, k + n <= Len(b),
           NEW q, q = [i \in 1..n |-> IF i <= m THEN a[i] ELSE b[k + i]]
    PROVE  /\ q \in [1..n -> S]
           /\ \A i \in 1..n : i <= m => q[i] = a[i]
           /\ \A i \in 1..n, j \in Int : i > m /\ j = k + i => q[i] = b[j]
<1>1. Len(a) \in Nat /\ Len(b) \in Nat
  OBVIOUS
<1>2. \A i \in 1..n : (IF i <= m THEN a[i] ELSE b[k + i]) \in S
  <2> SUFFICES ASSUME NEW i \in 1..n PROVE (IF i <= m THEN a[i] ELSE b[k + i]) \in S
    OBVIOUS
  <2>1. CASE i <= m
    <3>1. i \in 1..Len(a)
      BY <1>1, <2>1
    <3> QED
      BY <2>1, <3>1
  <2>2. CASE ~(i <= m)
    <3>1. k + i \in 1..Len(b)
      BY <1>1, <2>2
    <3> QED
      BY <2>2, <3>1
  <2> QED
    BY <2>1, <2>2
<1>3. q \in [1..n -> S]
  BY <1>2
<1> QED
  BY <1>3

\* The head of a path a up to place m, and the rest of a path b from where
\* they meet; what comes next is not what came before.
IsSplice(q, a, b, m, k, n) ==
    /\ a \in Seq(Poly \cup {Null}) /\ b \in Seq(Poly \cup {Null})
    /\ m \in 1..Len(a) /\ k \in Int /\ k + m >= 1
    /\ n \in Nat /\ n >= m /\ k + n <= Len(b)
    /\ q \in [1..n -> Poly \cup {Null}]
    /\ \A i \in 1..n : i <= m => q[i] = a[i]
    /\ \A i \in 1..n, j \in Int : i > m /\ j = k + i => q[i] = b[j]
    /\ a[m] = b[k + m]
    /\ 1 < m /\ m < n => a[m - 1] # b[k + m + 1]

LEMMA SpliceType ==
    ASSUME NEW q, NEW a, NEW b, NEW m, NEW k, NEW n, IsSplice(q, a, b, m, k, n)
    PROVE  q \in Seq(Poly \cup {Null}) /\ Len(q) = n
BY FunctionIsSeq DEF IsSplice

LEMMA SpliceIsPath ==
    ASSUME NEW q, NEW a, NEW b, NEW m, NEW k, NEW n, IsSplice(q, a, b, m, k, n),
           Linked(a), NoTrackback(a), Linked(b), NoTrackback(b)
    PROVE  Linked(q) /\ NoTrackback(q)
<1>0. /\ a \in Seq(Poly \cup {Null}) /\ Linked(a) /\ NoTrackback(a)
      /\ b \in Seq(Poly \cup {Null}) /\ Linked(b) /\ NoTrackback(b)
      /\ m \in 1..Len(a) /\ k \in Int /\ k + m >= 1
      /\ n \in Nat /\ n >= m /\ k + n <= Len(b)
      /\ q \in [1..n -> Poly \cup {Null}]
      /\ \A i \in 1..n : i <= m => q[i] = a[i]
      /\ \A i \in 1..n, j \in Int : i > m /\ j = k + i => q[i] = b[j]
      /\ a[m] = b[k + m]
      /\ 1 < m /\ m < n => a[m - 1] # b[k + m + 1]
  BY DEF IsSplice
<1>1. Len(a) \in Nat /\ Len(b) \in Nat
  BY <1>0
<1>2. \A i \in 1..n : i <= m => q[i] = a[i] /\ i <= Len(a)
  BY <1>0, <1>1
<1>3. \A i \in 1..n, j \in Int : i >= m /\ j = k + i => q[i] = b[j] /\ j \in 1..Len(b)
  <2> SUFFICES ASSUME NEW i \in 1..n, NEW j \in Int, i >= m, j = k + i
               PROVE  q[i] = b[j] /\ j \in 1..Len(b)
    OBVIOUS
  <2>1. CASE i = m
    BY <1>0, <2>1, <1>1, <1>2
  <2>2. CASE i > m
    BY <1>0, <2>2, <1>1
  <2> QED
    BY <1>0, <2>1, <2>2
<1>5. q \in Seq(Poly \cup {Null}) /\ Len(q) = n
  BY SpliceType
<1>6. Linked(q)
  <2> SUFFICES ASSUME NEW i \in 1..(n - 1)
               PROVE  <<q[i], q[i + 1]>> \in Neis \/ q[i] = Null \/ q[i + 1] = Null
    BY <1>0, <1>5 DEF Linked
  <2>1. CASE i < m
    <3>1. i \in 1..(Len(a) - 1) /\ q[i] = a[i] /\ q[i + 1] = a[i + 1]
      BY <1>0, <2>1, <1>1, <1>2
    <3> QED
      BY <1>0, <3>1, <1>1 DEF Linked
  <2>2. CASE i >= m
    <3> DEFINE j == k + i
    <3>1. j \in 1..(Len(b) - 1) /\ j + 1 = k + (i + 1)
      BY <1>0, <2>2, <1>1, <1>3
    <3>2. q[i] = b[j] /\ q[i + 1] = b[j + 1]
      BY <1>0, <2>2, <3>1, <1>3
    <3> QED
      BY <1>0, <3>1, <3>2, <1>1 DEF Linked
  <2> QED
    BY <1>0, <2>1, <2>2
<1>7. NoTrackback(q)
  <2> SUFFICES ASSUME NEW i \in 1..(n - 2)
               PROVE  q[i] # q[i + 2] \/ q[i] = Null \/ q[i + 1] = Null
    BY <1>0, <1>5 DEF NoTrackback
  <2>1. CASE i + 1 < m
    <3>1. /\ i \in 1..(Len(a) - 2)
          /\ q[i] = a[i] /\ q[i + 1] = a[i + 1] /\ q[i + 2] = a[i + 2]
      BY <1>0, <2>1, <1>1, <1>2
    <3> QED
      BY <1>0, <3>1 DEF NoTrackback
  <2>2. CASE i + 1 = m
    <3>1. q[i] = a[m - 1]
      BY <1>0, <2>2, <1>1, <1>2
    <3>2. q[i + 2] = b[k + m + 1]
      BY <1>0, <2>2, <1>1, <1>3
    <3> QED
      BY <1>0, <3>1, <3>2, <2>2
  <2>3. CASE i >= m
    <3> DEFINE j == k + i
    <3>1. j \in 1..(Len(b) - 2) /\ j + 1 = k + (i + 1) /\ j + 2 = k + (i + 2)
      BY <1>0, <2>3, <1>1, <1>3
    <3>2. q[i] = b[j] /\ q[i + 1] = b[j + 1] /\ q[i + 2] = b[j + 2]
      BY <1>0, <2>3, <3>1, <1>3
    <3> QED
      BY <1>0, <3>1, <3>2, <1>1 DEF NoTrackback
  <2> QED
    BY <1>0, <2>1, <2>2, <2>3
<1> QED
  BY <1>0, <1>5, <1>6, <1>7

\* A walk backwards is a path, too, because links go both ways.
LEMMA BackwardsIsPath ==
    ASSUME NEW w \in Seq(Poly), Linked(w), NoTrackback(w),
           NEW r, r = [i \in 1..Len(w) |-> w[Len(w) + 1 - i]]
    PROVE  r \in Seq(Poly) /\ Len(r) = Len(w) /\ Linked(r) /\ NoTrackback(r)
<1>1. r \in Seq(Poly) /\ Len(r) = Len(w) /\ Len(w) \in Nat
  <2>1. r \in [1..Len(w) -> Poly] /\ Len(w) \in Nat
    OBVIOUS
  <2> QED
    BY <2>1, FunctionIsSeq
<1>2. Null \notin Poly /\ \A x, y \in Poly : <<x, y>> \in Neis => <<y, x>> \in Neis
  BY CorridorAssumption
<1>3. Linked(r)
  <2> SUFFICES ASSUME NEW i \in 1..(Len(w) - 1) PROVE <<r[i], r[i + 1]>> \in Neis
    BY <1>1 DEF Linked
  <2> DEFINE j == Len(w) - i
  <2>1. j \in 1..(Len(w) - 1) /\ r[i] = w[j + 1] /\ r[i + 1] = w[j]
    BY <1>1
  <2>2. w[j] \in Poly /\ w[j + 1] \in Poly
    BY <2>1, <1>1
  <2>3. <<w[j], w[j + 1]>> \in Neis
    BY <2>1, <2>2, <1>1, <1>2 DEF Linked
  <2> QED
    BY <2>1, <2>2, <2>3, <1>2
<1>4. NoTrackback(r)
  <2> SUFFICES ASSUME NEW i \in 1..(Len(w) - 2) PROVE r[i] # r[i + 2]
    BY <1>1 DEF NoTrackback
  <2> DEFINE j == Len(w) - i - 1
  <2>1. j \in 1..(Len(w) - 2) /\ r[i] = w[j + 2] /\ r[i + 2] = w[j]
    BY <1>1
  <2>2. w[j] \in Poly /\ w[j + 1] \in Poly
    BY <2>1, <1>1
  <2> QED
    BY <2>1, <2>2, <1>1, <1>2 DEF NoTrackback
<1> QED
  BY <1>1, <1>3, <1>4

\* What the three merges have in common: where the pieces meet and where the
\* path stays clear of the walk.
LEMMA Seam ==
    ASSUME NEW p, PathType(p), NEW w, WalkType(w)
    PROVE  /\ \A f \in Furthest(p, w) : \A v \in PlaceOn(w, p[f]) :
                 /\ f \in 1..Len(p) /\ v \in 1..Len(w) /\ w[v] = p[f]
                 /\ \A i \in (f + 1)..Len(p), j \in 1..Len(w) : w[j] # p[i]
           /\ \A f \in Nearest(p, w) : \A v \in PlaceOn(w, p[f]) :
                 /\ f \in 1..Len(p) /\ v \in 1..Len(w) /\ w[v] = p[f]
                 /\ \A i \in 1..(f - 1), j \in 1..Len(w) : w[j] # p[i]
BY DEF Furthest, Nearest, PlaceOn, On

LEMMA StartMovedIsPath ==
    ASSUME NEW p, PathType(p), NEW w, WalkType(w),
           NEW f \in Furthest(p, w), NEW v \in PlaceOn(w, p[f]),
           NEW q, q = StartMoved(p, w, f, v)
    PROVE  /\ PathType(q) /\ (IsPath(p) /\ IsPath(w) => IsPath(q))
           /\ q[1] = w[Len(w)]
           /\ Len(w) - v + 1 + Len(p) - f <= MaxPath => q[Len(q)] = p[Len(p)]
<1> DEFINE req == Len(w) - v + 1
           n == Cap(req + Len(p) - f)
           r == [i \in 1..Len(w) |-> w[Len(w) + 1 - i]]
<1>1. /\ p \in Seq(Poly \cup {Null}) /\ Len(p) \in Nat /\ Len(p) >= 1
      /\ w \in Seq(Poly) /\ Len(w) \in Nat /\ Len(w) >= 1 /\ Len(w) <= MaxPath
      /\ MaxPath \in Nat /\ MaxPath >= 3
  BY CorridorAssumption DEF PathType, WalkType
<1>2. /\ f \in 1..Len(p) /\ v \in 1..Len(w) /\ w[v] = p[f]
      /\ \A i \in (f + 1)..Len(p), j \in 1..Len(w) : w[j] # p[i]
  BY Seam
<1>3. /\ req \in 1..Len(w) /\ n \in 1..MaxPath /\ n >= req /\ n <= req + Len(p) - f
      /\ req + Len(p) - f <= MaxPath => n = req + Len(p) - f
  BY <1>1, <1>2 DEF Cap
<1>4. r \in Seq(Poly \cup {Null}) /\ Len(r) = Len(w) /\ (IsPath(w) => IsPath(r))
  <2>1. r \in Seq(Poly) /\ Len(r) = Len(w)
    <3>1. r \in [1..Len(w) -> Poly] /\ Len(w) \in Nat
      BY <1>1
    <3> QED
      BY <3>1, FunctionIsSeq
  <2>2. IsPath(w) => IsPath(r)
    BY <1>1, BackwardsIsPath DEF IsPath
  <2> QED
    BY <2>1, <2>2
<1>5. r[req] = p[f] /\ (1 < req => r[req - 1] = w[v + 1]) /\ r[1] = w[Len(w)]
  BY <1>1, <1>2, <1>3
<1>6. q = [i \in 1..n |-> IF i <= req THEN r[i] ELSE p[(f - req) + i]]
  <2>1. q = [i \in 1..n |-> IF i <= req THEN w[Len(w) + 1 - i] ELSE p[f + i - req]]
    BY DEF StartMoved
  <2>2. \A i \in 1..n : /\ i <= req => r[i] = w[Len(w) + 1 - i]
                        /\ (f - req) + i = f + i - req
    BY <1>1, <1>2, <1>3
  <2> QED
    BY <2>1, <2>2
<1>7. 1 < req /\ req < n => r[req - 1] # p[(f - req) + req + 1]
  <2> SUFFICES ASSUME 1 < req, req < n PROVE r[req - 1] # p[f + 1]
    BY <1>2, <1>3
  <2>1. f + 1 \in (f + 1)..Len(p) /\ v + 1 \in 1..Len(w)
    BY <1>1, <1>2, <1>3
  <2> QED
    BY <2>1, <1>2, <1>5
<1> HIDE DEF req, n, r
<1>8. /\ req \in 1..Len(r) /\ f - req \in Int /\ (f - req) + req >= 1
      /\ n \in Nat /\ n >= req /\ (f - req) + n <= Len(p)
      /\ r[req] = p[(f - req) + req]
  BY <1>1, <1>2, <1>3, <1>4, <1>5
<1>8a. /\ q \in [1..n -> Poly \cup {Null}]
       /\ \A i \in 1..n : i <= req => q[i] = r[i]
       /\ \A i \in 1..n, j \in Int : i > req /\ j = (f - req) + i => q[i] = p[j]
  <2> DEFINE S == Poly \cup {Null}
             k == f - req
  <2>1. /\ p \in Seq(S) /\ r \in Seq(S) /\ req \in Nat /\ k \in Int /\ n \in Nat
        /\ 1 <= req /\ req <= Len(r) /\ req <= n /\ 1 <= k + req /\ k + n <= Len(p)
        /\ q = [i \in 1..n |-> IF i <= req THEN r[i] ELSE p[k + i]]
    BY <1>1, <1>2, <1>3, <1>4, <1>6, <1>8
  <2> HIDE DEF S, k
  <2>2. /\ q \in [1..n -> S]
        /\ \A i \in 1..n : i <= req => q[i] = r[i]
        /\ \A i \in 1..n, j \in Int : i > req /\ j = k + i => q[i] = p[j]
    BY <2>1, Pasted
  <2> QED
    BY <2>2 DEF S, k
<1>9. /\ q \in Seq(Poly \cup {Null}) /\ Len(q) = n
      /\ IsPath(p) /\ IsPath(w) => IsPath(q)
  <2>1. IsSplice(q, r, p, req, f - req, n)
    BY <1>1, <1>4, <1>8a, <1>7, <1>8 DEF IsSplice
  <2> QED
    BY <1>4, <2>1, SpliceType, SpliceIsPath DEF IsPath
<1>10. q[1] = w[Len(w)]
  BY <1>3, <1>5, <1>6
<1>11. ASSUME req + Len(p) - f <= MaxPath PROVE q[n] = p[Len(p)]
  <2>1. n = req + Len(p) - f
    BY <1>3, <1>11
  <2>2. CASE f = Len(p)
    BY <2>1, <2>2, <1>1, <1>2, <1>3, <1>5, <1>6
  <2>3. CASE f < Len(p)
    <3>1. n > req /\ (f - req) + n = Len(p)
      BY <2>1, <2>3, <1>1, <1>2, <1>3
    <3>2. q[n] = p[(f - req) + n]
      BY <3>1, <1>1, <1>2, <1>3, <1>8a
    <3> QED
      BY <3>1, <3>2
  <2> QED
    BY <2>2, <2>3, <1>1, <1>2
<1> QED
  BY <1>1, <1>3, <1>9, <1>10, <1>11 DEF PathType, req

LEMMA EndMovedIsPath ==
    ASSUME NEW p, PathType(p), NEW w, WalkType(w),
           NEW f \in Nearest(p, w), NEW v \in PlaceOn(w, p[f]),
           NEW q, q = EndMoved(p, w, f, v)
    PROVE  /\ PathType(q) /\ (IsPath(p) /\ IsPath(w) => IsPath(q))
           /\ q[1] = p[1]
           /\ f + Len(w) - v <= MaxPath => q[Len(q)] = w[Len(w)]
<1> DEFINE n == Cap(f + Len(w) - v)
<1>1. /\ p \in Seq(Poly \cup {Null}) /\ Len(p) \in Nat /\ Len(p) >= 1 /\ Len(p) <= MaxPath
      /\ w \in Seq(Poly \cup {Null}) /\ Len(w) \in Nat /\ Len(w) >= 1
      /\ MaxPath \in Nat /\ MaxPath >= 3
  BY CorridorAssumption DEF PathType, WalkType
<1>2. /\ f \in 1..Len(p) /\ v \in 1..Len(w) /\ w[v] = p[f]
      /\ \A i \in 1..(f - 1), j \in 1..Len(w) : w[j] # p[i]
  BY Seam
<1>3. /\ n \in 1..MaxPath /\ n >= f /\ n <= f + Len(w) - v
      /\ f + Len(w) - v <= MaxPath => n = f + Len(w) - v
  BY <1>1, <1>2 DEF Cap
<1>4. q = [i \in 1..n |-> IF i <= f THEN p[i] ELSE w[(v - f) + i]]
  <2>1. q = [i \in 1..n |-> IF i <= f THEN p[i] ELSE w[v + i - f]]
    BY DEF EndMoved
  <2>2. \A i \in 1..n : (v - f) + i = v + i - f
    BY <1>2
  <2> QED
    BY <2>1, <2>2
<1>5. 1 < f /\ f < n => p[f - 1] # w[(v - f) + f + 1]
  <2> SUFFICES ASSUME 1 < f, f < n PROVE p[f - 1] # w[v + 1]
    BY <1>2
  <2>1. f - 1 \in 1..(f - 1) /\ v + 1 \in 1..Len(w)
    BY <1>1, <1>2, <1>3
  <2> QED
    BY <2>1, <1>2
<1>6. /\ v - f \in Int /\ (v - f) + f >= 1
      /\ n \in Nat /\ n >= f /\ (v - f) + n <= Len(w)
      /\ p[f] = w[(v - f) + f]
  BY <1>1, <1>2, <1>3
<1> HIDE DEF n
<1>6a. /\ q \in [1..n -> Poly \cup {Null}]
       /\ \A i \in 1..n : i <= f => q[i] = p[i]
       /\ \A i \in 1..n, j \in Int : i > f /\ j = (v - f) + i => q[i] = w[j]
  <2> DEFINE S == Poly \cup {Null}
             k == v - f
  <2>1. /\ p \in Seq(S) /\ w \in Seq(S) /\ f \in Nat /\ k \in Int /\ n \in Nat
        /\ 1 <= f /\ f <= Len(p) /\ f <= n /\ 1 <= k + f /\ k + n <= Len(w)
        /\ q = [i \in 1..n |-> IF i <= f THEN p[i] ELSE w[k + i]]
    BY <1>1, <1>2, <1>3, <1>4, <1>6
  <2> HIDE DEF S, k
  <2>2. /\ q \in [1..n -> S]
        /\ \A i \in 1..n : i <= f => q[i] = p[i]
        /\ \A i \in 1..n, j \in Int : i > f /\ j = k + i => q[i] = w[j]
    BY <2>1, Pasted
  <2> QED
    BY <2>2 DEF S, k
<1>7. /\ q \in Seq(Poly \cup {Null}) /\ Len(q) = n
      /\ IsPath(p) /\ IsPath(w) => IsPath(q)
  <2>1. IsSplice(q, p, w, f, v - f, n)
    BY <1>1, <1>2, <1>6a, <1>5, <1>6 DEF IsSplice
  <2> QED
    BY <2>1, SpliceType, SpliceIsPath DEF IsPath
<1>8. q[1] = p[1]
  BY <1>2, <1>3, <1>4
<1>9. ASSUME f + Len(w) - v <= MaxPath PROVE q[n] = w[Len(w)]
  <2>1. n = f + Len(w) - v
    BY <1>3, <1>9
  <2>2. CASE v = Len(w)
    BY <2>1, <2>2, <1>1, <1>2, <1>3, <1>4
  <2>3. CASE v < Len(w)
    <3>1. n > f /\ (v - f) + n = Len(w)
      BY <2>1, <2>3, <1>1, <1>2, <1>3
    <3>2. q[n] = w[(v - f) + n]
      BY <3>1, <1>1, <1>2, <1>3, <1>6a
    <3> QED
      BY <3>1, <3>2
  <2> QED
    BY <2>2, <2>3, <1>1, <1>2
<1> QED
  BY <1>1, <1>3, <1>7, <1>8, <1>9 DEF PathType

LEMMA StartShortcutIsPath ==
    ASSUME NEW p, PathType(p), NEW w, WalkType(w),
           NEW f \in Furthest(p, w), NEW v \in PlaceOn(w, p[f]),
           NEW q, q = StartShortcut(p, w, f, v)
    PROVE  /\ PathType(q) /\ (IsPath(p) /\ IsPath(w) => IsPath(q))
           /\ q[1] = IF v = 1 THEN p[1] ELSE w[1]
           /\ v = 1 \/ v + Len(p) - f <= MaxPath => q[Len(q)] = p[Len(p)]
<1> DEFINE n == Cap(v - 1 + Len(p) - f + 1)
<1>1. /\ p \in Seq(Poly \cup {Null}) /\ Len(p) \in Nat /\ Len(p) >= 1
      /\ w \in Seq(Poly \cup {Null}) /\ Len(w) \in Nat /\ Len(w) >= 1 /\ Len(w) <= MaxPath
      /\ MaxPath \in Nat /\ MaxPath >= 3
  BY CorridorAssumption DEF PathType, WalkType
<1>2. /\ f \in 1..Len(p) /\ v \in 1..Len(w) /\ w[v] = p[f]
      /\ \A i \in (f + 1)..Len(p), j \in 1..Len(w) : w[j] # p[i]
  BY Seam
<1>3. CASE v = 1
  BY <1>3 DEF StartShortcut
<1>4. CASE v # 1
  <2>1. /\ n \in 1..MaxPath /\ n >= v /\ n <= v + Len(p) - f /\ v >= 2
        /\ v + Len(p) - f <= MaxPath => n = v + Len(p) - f
    BY <1>1, <1>2, <1>4 DEF Cap
  <2>2. q = [i \in 1..n |-> IF i <= v THEN w[i] ELSE p[(f - v) + i]]
    <3>1. q = [i \in 1..n |-> IF i < v THEN w[i] ELSE p[f + i - v]]
      BY <1>4 DEF StartShortcut
    <3>2. \A i \in 1..n : /\ f + i - v = (f - v) + i
                          /\ i = v => p[f + i - v] = w[i]
      BY <1>1, <1>2, <2>1
    <3> QED
      BY <3>1, <3>2, <1>2, <2>1
  <2>3. 1 < v /\ v < n => w[v - 1] # p[(f - v) + v + 1]
    <3> SUFFICES ASSUME 1 < v, v < n PROVE w[v - 1] # p[f + 1]
      BY <1>2
    <3>1. f + 1 \in (f + 1)..Len(p) /\ v - 1 \in 1..Len(w)
      BY <1>1, <1>2, <2>1
    <3> QED
      BY <3>1, <1>2
  <2>4. /\ f - v \in Int /\ (f - v) + v >= 1
        /\ n \in Nat /\ n >= v /\ (f - v) + n <= Len(p)
        /\ w[v] = p[(f - v) + v]
    BY <1>1, <1>2, <2>1
  <2> HIDE DEF n
  <2>4a. /\ q \in [1..n -> Poly \cup {Null}]
         /\ \A i \in 1..n : i <= v => q[i] = w[i]
         /\ \A i \in 1..n, j \in Int : i > v /\ j = (f - v) + i => q[i] = p[j]
    <3> DEFINE S == Poly \cup {Null}
               k == f - v
    <3>1. /\ p \in Seq(S) /\ w \in Seq(S) /\ v \in Nat /\ k \in Int /\ n \in Nat
          /\ 1 <= v /\ v <= Len(w) /\ v <= n /\ 1 <= k + v /\ k + n <= Len(p)
          /\ q = [i \in 1..n |-> IF i <= v THEN w[i] ELSE p[k + i]]
      BY <1>1, <1>2, <2>1, <2>2, <2>4
    <3> HIDE DEF S, k
    <3>2. /\ q \in [1..n -> S]
          /\ \A i \in 1..n : i <= v => q[i] = w[i]
          /\ \A i \in 1..n, j \in Int : i > v /\ j = k + i => q[i] = p[j]
      BY <3>1, Pasted
    <3> QED
      BY <3>2 DEF S, k
  <2>5. /\ q \in Seq(Poly \cup {Null}) /\ Len(q) = n
        /\ IsPath(p) /\ IsPath(w) => IsPath(q)
    <3>1. IsSplice(q, w, p, v, f - v, n)
      BY <1>1, <1>2, <2>4a, <2>3, <2>4 DEF IsSplice
    <3> QED
      BY <3>1, SpliceType, SpliceIsPath DEF IsPath
  <2>6. q[1] = w[1]
    BY <1>2, <2>1, <2>2
  <2>7. ASSUME v + Len(p) - f <= MaxPath PROVE q[n] = p[Len(p)]
    <3>1. n = v + Len(p) - f
      BY <2>1, <2>7
    <3>2. CASE f = Len(p)
      BY <3>1, <3>2, <1>1, <1>2, <2>1, <2>2
    <3>3. CASE f < Len(p)
      <4>1. n > v /\ (f - v) + n = Len(p)
        BY <3>1, <3>3, <1>1, <1>2, <2>1
      <4>2. q[n] = p[(f - v) + n]
        BY <4>1, <1>1, <1>2, <2>1, <2>4a
      <4> QED
        BY <4>1, <4>2
    <3> QED
      BY <3>2, <3>3, <1>1, <1>2
  <2> QED
    BY <1>1, <1>4, <2>1, <2>5, <2>6, <2>7 DEF PathType
<1> QED
  BY <1>3, <1>4

----------------------------------------------------------------------------
(* The specification *)

\* The beginning of a path is a path.
LEMMA PrefixIsPath ==
    ASSUME NEW p, Linked(p), NoTrackback(p), Len(p) \in Nat,
           NEW q, NEW n \in Nat, Len(q) = n, n <= Len(p),
           \A i \in 1..n : q[i] = p[i]
    PROVE  Linked(q) /\ NoTrackback(q)
<1>1. Linked(q)
  <2> SUFFICES ASSUME NEW i \in 1..(n - 1)
               PROVE  <<q[i], q[i + 1]>> \in Neis \/ q[i] = Null \/ q[i + 1] = Null
    BY DEF Linked
  <2>1. i \in 1..(Len(p) - 1) /\ q[i] = p[i] /\ q[i + 1] = p[i + 1]
    OBVIOUS
  <2> QED
    BY <2>1 DEF Linked
<1>2. NoTrackback(q)
  <2> SUFFICES ASSUME NEW i \in 1..(n - 2)
               PROVE  q[i] # q[i + 2] \/ q[i] = Null \/ q[i + 1] = Null
    BY DEF NoTrackback
  <2>1. /\ i \in 1..(Len(p) - 2)
        /\ q[i] = p[i] /\ q[i + 1] = p[i + 1] /\ q[i + 2] = p[i + 2]
    OBVIOUS
  <2> QED
    BY <2>1 DEF NoTrackback
<1> QED
  BY <1>1, <1>2

\* A walk that starts at a polygon that is there is linked and turns back
\* nowhere; so is what is reported of it.  It is reported from its start, and
\* to its end unless some of it is left out.
LEMMA WalkIsPath ==
    ASSUME NEW w \in Walks, Linked(w)
    PROVE  IsPath(w) /\ IsPath(Visited(w))
<1>1. /\ w \in Seq(Poly) /\ Len(w) \in 1..MaxPath /\ Len(w) \in Nat /\ Simple(w)
      /\ MaxVisited \in Nat
  BY CorridorAssumption
<1>2. NoTrackback(w)
  <2> SUFFICES ASSUME NEW i \in 1..(Len(w) - 2) PROVE w[i] # w[i + 2]
    BY DEF NoTrackback
  <2>1. i \in 1..Len(w) /\ i + 2 \in 1..Len(w) /\ i # i + 2
    BY <1>1
  <2> QED
    BY <1>1, <2>1 DEF Simple
<1>3. CASE Len(w) <= MaxVisited
  BY <1>1, <1>2, <1>3 DEF Visited, IsPath
<1>4. CASE Len(w) > MaxVisited
  <2> DEFINE r == Visited(w)
  <2>1. r = SubSeq(w, 1, MaxVisited)
    BY <1>4 DEF Visited
  <2>2. Len(r) = MaxVisited /\ \A i \in 1..MaxVisited : r[i] = w[i]
    BY <1>1, <1>4, <2>1, CorridorAssumption
  <2> QED
    BY <1>1, <1>2, <1>4, <2>2, PrefixIsPath DEF IsPath
<1> QED
  BY <1>1, <1>3, <1>4

LEMMA WalkedIsLinked ==
    ASSUME TypeOK, NEW w \in Walks, Walked(w), Len(w) > 1 => Current(w[1])
    PROVE  Linked(w)
<1>1. w \in Seq(Poly) /\ Len(w) \in 1..MaxPath /\ Len(w) \in Nat
  BY CorridorAssumption
<1> SUFFICES ASSUME NEW i \in 1..(Len(w) - 1) PROVE <<w[i], w[i + 1]>> \in Neis
  BY DEF Linked
<1>2. i \in 1..Len(w) /\ i + 1 \in 2..Len(w) /\ (i + 1) - 1 = i /\ Len(w) > 1
  BY <1>1
<1>3. <<Seen(w[i]), w[i + 1]>> \in Neis
  BY <1>2 DEF Walked
<1>4. Current(w[i])
  <2>1. CASE i = 1
    BY <1>2, <2>1
  <2>2. CASE i # 1
    <3>1. i \in 2..Len(w)
      BY <1>1, <2>2
    <3> QED
      BY <3>1 DEF Walked, Safe
  <2> QED
    BY <2>1, <2>2
<1>5. w[i] \in [place : Place, salt : Nat]
  BY <1>1, <1>2, CorridorAssumption
<1>6. Seen(w[i]) = w[i]
  BY <1>4, <1>5 DEF Seen, Current
<1> QED
  BY <1>3, <1>6

LEMMA VisitedIsWalk ==
    ASSUME NEW w \in Walks
    PROVE  /\ WalkType(w) /\ WalkType(Visited(w))
           /\ Len(w) <= MaxVisited => Visited(w)[Len(Visited(w))] = w[Len(w)]
<1>1. /\ w \in Seq(Poly) /\ Len(w) \in 1..MaxPath
      /\ MaxPath \in Nat /\ MaxPath >= 3 /\ MaxVisited \in 1..MaxPath
  BY CorridorAssumption
<1>2. CASE Len(w) <= MaxVisited
  BY <1>1, <1>2 DEF Visited, WalkType
<1>3. CASE Len(w) > MaxVisited
  <2> DEFINE r == Visited(w)
  <2>1. r = SubSeq(w, 1, MaxVisited)
    BY <1>3 DEF Visited
  <2>2. r \in Seq(Poly) /\ Len(r) = MaxVisited
    BY <1>1, <1>3, <2>1
  <2> QED
    BY <1>1, <1>3, <2>2 DEF WalkType
<1> QED
  BY <1>1, <1>2, <1>3

\* What the steps preserve.
CorridorInv == TypeOK /\ CorridorIsPath /\ StartsAtAgent /\ EndsAtTarget

LEMMA InvInit == Init => CorridorInv
<1> SUFFICES ASSUME Init PROVE CorridorInv
  OBVIOUS
<1>1. PICK poly \in Poly : path = <<poly>> /\ pos = poly /\ target = poly
  BY DEF Init, Safe
<1>2. MaxPath \in Nat /\ MaxPath >= 3
  BY CorridorAssumption
<1>3. path \in Seq(Poly \cup {Null}) /\ Len(path) = 1 /\ path[1] = poly
  BY <1>1
<1>4. Linked(path) /\ NoTrackback(path)
  BY <1>3 DEF Linked, NoTrackback
<1>5. TypeOK
  <2>1. /\ salt = [x \in Place |-> 0] /\ held = Place /\ open = Place /\ changes = 0
        /\ cut = FALSE /\ astray = FALSE /\ misled = FALSE /\ Changes \in Nat
    BY CorridorAssumption DEF Init
  <2>2. 1 \in 1..MaxPath
    BY <1>2
  <2>3. path \in Seq(Poly \cup {Null}) /\ Len(path) \in 1..MaxPath
    BY <1>3, <2>2
  <2>4. pos \in Poly \cup {Null} /\ target \in Poly \cup {Null}
    BY <1>1
  <2>5. /\ salt \in [Place -> Nat] /\ held \subseteq Place /\ open \subseteq Place
        /\ changes \in 0..Changes
        /\ cut \in BOOLEAN /\ astray \in BOOLEAN /\ misled \in BOOLEAN
    <3>1. salt \in [Place -> Nat]
      BY <2>1
    <3>2. held \subseteq Place /\ open \subseteq Place /\ changes \in 0..Changes
      BY <2>1
    <3>3. cut \in BOOLEAN /\ astray \in BOOLEAN /\ misled \in BOOLEAN
      BY <2>1
    <3> QED
      BY <3>1, <3>2, <3>3
  <2> QED
    BY <2>3, <2>4, <2>5 DEF TypeOK
<1>6. StartsAtAgent /\ EndsAtTarget
  BY <1>1, <1>3 DEF StartsAtAgent, EndsAtTarget
<1> QED
  BY <1>4, <1>5, <1>6 DEF CorridorInv, CorridorIsPath

\* A path of one polygon, or of none that is there.
LEMMA AloneIsPath ==
    ASSUME NEW poly \in Poly \cup {Null}, NEW q, q = <<poly>>
    PROVE  /\ PathType(q) /\ IsPath(q)
           /\ Len(q) = 1 /\ q[1] = poly /\ q[Len(q)] = poly
<1>1. q \in Seq(Poly \cup {Null}) /\ Len(q) = 1 /\ q[1] = poly
  OBVIOUS
<1> QED
  BY <1>1, CorridorAssumption DEF PathType, IsPath, Linked, NoTrackback

\* TypeOK, by what changes and what may not.
LEMMA TypeKept ==
    ASSUME TypeOK, PathType(path'), pos' \in Poly \cup {Null}, target' \in Poly \cup {Null},
           UNCHANGED mesh, cut' \in BOOLEAN, astray' \in BOOLEAN, misled' \in BOOLEAN
    PROVE  TypeOK'
BY DEF TypeOK, PathType, mesh

LEMMA MergedShortcutKeepsInv ==
    ASSUME CorridorInv, NEW walk \in Walks, NEW startsHere \in BOOLEAN,
           startsHere <=> walk[1] = path[1], MergedShortcut(walk, startsHere),
           misled' \in BOOLEAN, ~misled' => ~misled /\ IsPath(walk)
    PROVE  CorridorInv'
<1>1. PathType(path) /\ (~misled => IsPath(path))
  BY DEF CorridorInv, TypeOK, CorridorIsPath, PathType, IsPath
<1>2. WalkType(walk)
  BY VisitedIsWalk
<1>3. UNCHANGED <<pos, target, mesh>>
  BY DEF MergedShortcut
<1>4. CASE ~Meets(path, walk)
  <2>1. UNCHANGED <<path, cut, astray>>
    BY <1>4 DEF MergedShortcut
  <2>2. TypeOK'
    BY <1>1, <1>3, <2>1, TypeKept DEF CorridorInv, TypeOK
  <2> QED
    BY <1>1, <1>3, <2>1, <2>2
    DEF CorridorInv, CorridorIsPath, IsPath, StartsAtAgent, EndsAtTarget
<1>5. CASE Meets(path, walk)
  <2>10. PICK f \in Furthest(path, walk) : \E v \in PlaceOn(walk, path[f]) :
            /\ path' = StartShortcut(path, walk, f, v)
            /\ cut' = (cut \/ (v > 1 /\ v + Len(path) - f > MaxPath))
            /\ astray' = (astray \/ (v > 1 /\ ~startsHere))
    BY <1>5 DEF MergedShortcut
  <2>1. PICK v \in PlaceOn(walk, path[f]) :
            /\ path' = StartShortcut(path, walk, f, v)
            /\ cut' = (cut \/ (v > 1 /\ v + Len(path) - f > MaxPath))
            /\ astray' = (astray \/ (v > 1 /\ ~startsHere))
    BY <2>10
  <2>2. /\ PathType(path') /\ (IsPath(path) /\ IsPath(walk) => IsPath(path'))
        /\ path'[1] = IF v = 1 THEN path[1] ELSE walk[1]
        /\ v = 1 \/ v + Len(path) - f <= MaxPath => path'[Len(path')] = path[Len(path)]
    BY <1>1, <1>2, <2>1, StartShortcutIsPath
  <2>3. v \in Nat /\ f \in Nat /\ v >= 1 /\ MaxPath \in Nat /\ Len(path) \in Nat
    BY <1>1, <1>2, CorridorAssumption DEF PlaceOn, Furthest, WalkType, PathType
  <2>4. StartsAtAgent'
    <3> SUFFICES ASSUME ~astray' PROVE path'[1] = pos'
      BY DEF StartsAtAgent
    <3>1. ~astray /\ ~(v > 1 /\ ~startsHere)
      BY <2>1, Zenon
    <3>2. path[1] = pos /\ (v = 1 \/ startsHere)
      BY <2>3, <3>1 DEF CorridorInv, StartsAtAgent
    <3> QED
      BY <1>3, <2>2, <3>2
  <2>5. EndsAtTarget'
    <3> SUFFICES ASSUME ~cut' PROVE path'[Len(path')] = target'
      BY DEF EndsAtTarget
    <3>1. ~cut /\ ~(v > 1 /\ v + Len(path) - f > MaxPath)
      BY <2>1, Zenon
    <3>2. path[Len(path)] = target /\ (v = 1 \/ v + Len(path) - f <= MaxPath)
      BY <2>3, <3>1 DEF CorridorInv, EndsAtTarget
    <3> QED
      BY <1>3, <2>2, <3>2
  <2>6. TypeOK'
    <3>1. cut' \in BOOLEAN /\ astray' \in BOOLEAN
      BY <2>1, Zenon
    <3> QED
      BY <1>3, <2>2, <3>1, TypeKept DEF CorridorInv, TypeOK
  <2>7. CorridorIsPath'
    BY <1>1, <2>2 DEF CorridorIsPath, IsPath
  <2> QED
    BY <2>4, <2>5, <2>6, <2>7 DEF CorridorInv
<1> QED
  BY <1>4, <1>5

LEMMA ResetKeepsInv ==
    ASSUME CorridorInv, NEW poly \in Safe \cup {Null}, Reset(poly)
    PROVE  CorridorInv'
<1>1. poly \in Poly \cup {Null}
  BY DEF Safe
<1>2. /\ PathType(path') /\ IsPath(path')
      /\ path'[1] = poly /\ path'[Len(path')] = poly
  BY <1>1, AloneIsPath DEF Reset
<1>3. TypeOK'
  BY <1>1, <1>2, TypeKept DEF Reset, CorridorInv
<1> QED
  BY <1>2, <1>3 DEF Reset, CorridorInv, IsPath, CorridorIsPath, StartsAtAgent, EndsAtTarget

\* A quick search gives the corridor the start it had, or another's path; the
\* agent may then be elsewhere.
LEMMA QuickPathKeepsInv ==
    ASSUME CorridorInv, NEW walk \in Walks, QuickPath(walk)
    PROVE  CorridorInv'
<1>1. /\ path' = walk /\ target' = walk[Len(walk)] /\ cut' = FALSE
      /\ astray' = (astray \/ walk[1] # path[1]) /\ misled' = ~Linked(walk)
      /\ UNCHANGED <<pos, mesh>>
  BY DEF QuickPath, SetCorridor
<1>2. WalkType(walk) /\ (~misled' => IsPath(walk))
  BY <1>1, WalkIsPath, VisitedIsWalk
<1>3. PathType(walk) /\ walk[Len(walk)] \in Poly
  BY <1>2, CorridorAssumption DEF WalkType, PathType
<1>4. misled' \in BOOLEAN /\ astray' \in BOOLEAN
  BY <1>1, Zenon
<1>5. TypeOK'
  BY <1>1, <1>3, <1>4, TypeKept DEF CorridorInv, TypeOK
<1>6. StartsAtAgent'
  <2> SUFFICES ASSUME ~astray' PROVE path'[1] = pos'
    BY DEF StartsAtAgent
  <2>1. ~astray /\ walk[1] = path[1]
    BY <1>1, Zenon
  <2> QED
    BY <1>1, <2>1 DEF CorridorInv, StartsAtAgent
<1> QED
  BY <1>1, <1>2, <1>5, <1>6 DEF CorridorInv, IsPath, CorridorIsPath, EndsAtTarget

LEMMA OnlyFirstKeepsInv ==
    ASSUME CorridorInv, OnlyFirst
    PROVE  CorridorInv'
<1>1. /\ path' = <<path[1]>> /\ target' = pos /\ cut' = astray /\ misled' = FALSE
      /\ UNCHANGED <<pos, mesh, astray>>
  BY DEF OnlyFirst, SetCorridor
<1>2. path[1] \in Poly \cup {Null}
  BY DEF CorridorInv, TypeOK
<1>3. PathType(path') /\ IsPath(path') /\ path'[1] = path[1] /\ path'[Len(path')] = path[1]
  BY <1>1, <1>2, AloneIsPath
<1>4. TypeOK'
  BY <1>1, <1>3, TypeKept DEF CorridorInv, TypeOK
<1> QED
  BY <1>1, <1>3, <1>4 DEF CorridorInv, IsPath, CorridorIsPath, StartsAtAgent, EndsAtTarget

\* What is reported of a walk by which nobody is misled.
LEMMA NotMisled ==
    ASSUME TypeOK, NEW walk \in Walks, Walked(walk)
    PROVE  /\ Misled(walk) \in BOOLEAN
           /\ ~Misled(walk) => ~misled /\ IsPath(walk) /\ IsPath(Visited(walk))
<1>1. Misled(walk) \in BOOLEAN
  BY DEF Misled
<1>2. ASSUME ~Misled(walk) PROVE ~misled /\ (Len(walk) > 1 => Current(walk[1]))
  BY <1>2 DEF Misled
<1> QED
  BY <1>1, <1>2, WalkedIsLinked, WalkIsPath

LEMMA MovePositionKeepsInv ==
    ASSUME CorridorInv, NEW walk \in Walks, MovePosition(walk)
    PROVE  CorridorInv'
<1> DEFINE w == Visited(walk)
<1>1. PathType(path) /\ (~misled => IsPath(path))
  BY DEF CorridorInv, TypeOK, CorridorIsPath, PathType, IsPath
<1>2. /\ WalkType(w) /\ WalkType(walk)
      /\ Len(walk) <= MaxVisited => w[Len(w)] = walk[Len(walk)]
      /\ misled' \in BOOLEAN /\ (~misled' => ~misled /\ IsPath(w))
  BY VisitedIsWalk, NotMisled DEF MovePosition, CorridorInv
<1>30. PICK f \in Furthest(path, w) : \E v \in PlaceOn(w, path[f]) :
          /\ path' = StartMoved(path, w, f, v)
          /\ cut' = (cut \/ Len(w) - v + 1 + Len(path) - f > MaxPath)
  BY DEF MovePosition
<1>3. PICK v \in PlaceOn(w, path[f]) :
          /\ path' = StartMoved(path, w, f, v)
          /\ cut' = (cut \/ Len(w) - v + 1 + Len(path) - f > MaxPath)
  BY <1>30
<1>4. /\ pos' = walk[Len(walk)] /\ astray' = (Len(walk) > MaxVisited)
      /\ target' = target /\ UNCHANGED mesh
  BY DEF MovePosition
<1> HIDE DEF w
<1>5. /\ PathType(path') /\ (IsPath(path) /\ IsPath(w) => IsPath(path'))
      /\ path'[1] = w[Len(w)]
      /\ Len(w) - v + 1 + Len(path) - f <= MaxPath => path'[Len(path')] = path[Len(path)]
  BY <1>1, <1>2, <1>3, StartMovedIsPath
<1>6. /\ v \in Nat /\ f \in Nat /\ MaxPath \in Nat /\ MaxVisited \in Nat
      /\ Len(path) \in Nat /\ Len(w) \in Nat /\ Len(walk) \in Nat /\ walk[Len(walk)] \in Poly
  BY <1>1, <1>2, CorridorAssumption DEF PlaceOn, Furthest, WalkType, PathType
<1>7. StartsAtAgent'
  <2> SUFFICES ASSUME ~astray' PROVE path'[1] = pos'
    BY DEF StartsAtAgent
  <2>1. ~(Len(walk) > MaxVisited)
    BY <1>4, Zenon
  <2> QED
    BY <1>2, <1>4, <1>5, <1>6, <2>1
<1>8. EndsAtTarget'
  <2> SUFFICES ASSUME ~cut' PROVE path'[Len(path')] = target'
    BY DEF EndsAtTarget
  <2>1. ~cut /\ ~(Len(w) - v + 1 + Len(path) - f > MaxPath)
    BY <1>3, Zenon
  <2> QED
    BY <1>4, <1>5, <1>6, <2>1 DEF CorridorInv, EndsAtTarget
<1>9. TypeOK'
  <2>1. cut' \in BOOLEAN
    BY <1>3, Zenon
  <2>3. astray' \in BOOLEAN
    BY <1>4, <1>6
  <2> QED
    BY <1>2, <1>4, <1>5, <1>6, <2>1, <2>3, TypeKept DEF CorridorInv, TypeOK
<1>10. CorridorIsPath'
  BY <1>1, <1>2, <1>5 DEF CorridorIsPath, IsPath
<1> QED
  BY <1>7, <1>8, <1>9, <1>10 DEF CorridorInv

LEMMA MoveTargetKeepsInv ==
    ASSUME CorridorInv, NEW walk \in Walks, MoveTargetPosition(walk)
    PROVE  CorridorInv'
<1> DEFINE w == Visited(walk)
<1>1. PathType(path) /\ (~misled => IsPath(path))
  BY DEF CorridorInv, TypeOK, CorridorIsPath, PathType, IsPath
<1>2. /\ WalkType(w) /\ WalkType(walk)
      /\ Len(walk) <= MaxVisited => w[Len(w)] = walk[Len(walk)]
      /\ misled' \in BOOLEAN /\ (~misled' => ~misled /\ IsPath(w))
  BY VisitedIsWalk, NotMisled DEF MoveTargetPosition, CorridorInv
<1>30. PICK f \in Nearest(path, w) : \E v \in PlaceOn(w, path[f]) :
          /\ path' = EndMoved(path, w, f, v)
          /\ cut' = (Len(walk) > MaxVisited \/ f + Len(w) - v > MaxPath)
  BY DEF MoveTargetPosition
<1>3. PICK v \in PlaceOn(w, path[f]) :
          /\ path' = EndMoved(path, w, f, v)
          /\ cut' = (Len(walk) > MaxVisited \/ f + Len(w) - v > MaxPath)
  BY <1>30
<1>4. target' = walk[Len(walk)] /\ pos' = pos /\ UNCHANGED mesh /\ astray' = astray
  BY DEF MoveTargetPosition
<1> HIDE DEF w
<1>5. /\ PathType(path') /\ (IsPath(path) /\ IsPath(w) => IsPath(path'))
      /\ path'[1] = path[1]
      /\ f + Len(w) - v <= MaxPath => path'[Len(path')] = w[Len(w)]
  BY <1>1, <1>2, <1>3, EndMovedIsPath
<1>6. /\ v \in Nat /\ f \in Nat /\ MaxPath \in Nat /\ MaxVisited \in Nat
      /\ Len(path) \in Nat /\ Len(w) \in Nat /\ Len(walk) \in Nat /\ walk[Len(walk)] \in Poly
  BY <1>1, <1>2, CorridorAssumption DEF PlaceOn, Nearest, WalkType, PathType
<1>7. StartsAtAgent'
  BY <1>4, <1>5 DEF CorridorInv, StartsAtAgent
<1>8. EndsAtTarget'
  <2> SUFFICES ASSUME ~cut' PROVE path'[Len(path')] = target'
    BY DEF EndsAtTarget
  <2>1. ~(Len(walk) > MaxVisited) /\ ~(f + Len(w) - v > MaxPath)
    BY <1>3, Zenon
  <2> QED
    BY <1>2, <1>4, <1>5, <1>6, <2>1
<1>9. TypeOK'
  <2>1. cut' \in BOOLEAN
    BY <1>3, Zenon
  <2> QED
    BY <1>2, <1>4, <1>5, <1>6, <2>1, TypeKept DEF CorridorInv, TypeOK
<1>10. CorridorIsPath'
  BY <1>1, <1>2, <1>5 DEF CorridorIsPath, IsPath
<1> QED
  BY <1>7, <1>8, <1>9, <1>10 DEF CorridorInv

\* The start of a path and a gap, up to the rest of the path.
LEMMA GapIsPath ==
    ASSUME NEW p, PathType(p), NEW safe \in Poly,
           NEW q, q = IF Len(p) < 3 THEN <<safe, Null, p[Len(p)]>>
                      ELSE [i \in 1..Len(p) |-> CASE i = 1 -> safe [] i = 2 -> Null
                                                  [] OTHER -> p[i]]
    PROVE  /\ PathType(q) /\ (IsPath(p) => IsPath(q))
           /\ q[1] = safe /\ q[Len(q)] = p[Len(p)]
<1>1. /\ p \in Seq(Poly \cup {Null}) /\ Len(p) \in 1..MaxPath
      /\ MaxPath \in Nat /\ MaxPath >= 3 /\ Len(p) \in Nat
  BY CorridorAssumption DEF PathType
<1>2. CASE Len(p) < 3
  <2> DEFINE last == p[Len(p)]
  <2>1. last \in Poly \cup {Null}
    BY <1>1
  <2>2. q = <<safe, Null, last>>
    BY <1>2
  <2> HIDE DEF last
  <2>3. /\ q \in Seq(Poly \cup {Null}) /\ Len(q) = 3
        /\ q[1] = safe /\ q[2] = Null /\ q[3] = last
    <3>1. safe \in Poly \cup {Null} /\ Null \in Poly \cup {Null}
      OBVIOUS
    <3>2. q[1] = safe /\ q[2] = Null /\ q[3] = last /\ DOMAIN q = 1..3
      BY <2>2
    <3>3. q = [i \in 1..3 |-> q[i]]
      BY <2>2
    <3>4. \A i \in 1..3 : q[i] \in Poly \cup {Null}
      BY <2>1, <3>1, <3>2
    <3>5. q \in [1..3 -> Poly \cup {Null}]
      BY <3>3, <3>4
    <3> DEFINE S == Poly \cup {Null}
               m == 3
    <3>6. q \in [1..m -> S] /\ m \in Nat
      BY <3>5
    <3>7. q \in Seq(S) /\ Len(q) = m
      <4> HIDE DEF S, m
      <4> QED
        BY <3>6, FunctionIsSeq
    <3> QED
      BY <3>2, <3>7
  <2>4. Linked(q) /\ NoTrackback(q)
    BY <2>3 DEF Linked, NoTrackback
  <2> QED
    BY <1>1, <2>3, <2>4 DEF PathType, IsPath, last
<1>3. CASE ~(Len(p) < 3)
  <2>1. q = [i \in 1..Len(p) |-> CASE i = 1 -> safe [] i = 2 -> Null [] OTHER -> p[i]]
    BY <1>3
  <2>2. \A i \in 1..Len(p) : (CASE i = 1 -> safe [] i = 2 -> Null [] OTHER -> p[i])
                                 \in Poly \cup {Null}
    BY <1>1
  <2>3. q \in [1..Len(p) -> Poly \cup {Null}]
    BY <2>1, <2>2
  <2>4. q \in Seq(Poly \cup {Null}) /\ Len(q) = Len(p)
    BY <1>1, <2>3, FunctionIsSeq
  <2>5. /\ q[1] = safe /\ q[2] = Null
        /\ \A i \in 3..Len(p) : q[i] = p[i]
    BY <1>1, <1>3, <2>1
  <2>6. ASSUME Linked(p), NoTrackback(p) PROVE Linked(q) /\ NoTrackback(q)
    <3>1. Linked(q)
      <4> SUFFICES ASSUME NEW i \in 1..(Len(p) - 1)
                   PROVE  <<q[i], q[i + 1]>> \in Neis \/ q[i] = Null \/ q[i + 1] = Null
        BY <2>4 DEF Linked
      <4>1. CASE i <= 2
        BY <1>1, <2>5, <4>1
      <4>2. CASE i > 2
        <5>1. q[i] = p[i] /\ q[i + 1] = p[i + 1]
          BY <1>1, <2>5, <4>2
        <5> QED
          BY <1>1, <2>6, <5>1 DEF Linked
      <4> QED
        BY <4>1, <4>2
    <3>2. NoTrackback(q)
      <4> SUFFICES ASSUME NEW i \in 1..(Len(p) - 2)
                   PROVE  q[i] # q[i + 2] \/ q[i] = Null \/ q[i + 1] = Null
        BY <2>4 DEF NoTrackback
      <4>1. CASE i <= 2
        BY <1>1, <2>5, <4>1
      <4>2. CASE i > 2
        <5>1. q[i] = p[i] /\ q[i + 1] = p[i + 1] /\ q[i + 2] = p[i + 2]
          BY <1>1, <2>5, <4>2
        <5> QED
          BY <1>1, <2>6, <5>1 DEF NoTrackback
      <4> QED
        BY <4>1, <4>2
    <3> QED
      BY <3>1, <3>2
  <2>7. q[Len(q)] = p[Len(p)]
    BY <1>1, <1>3, <2>4, <2>5
  <2> QED
    BY <1>1, <2>4, <2>5, <2>6, <2>7 DEF PathType, IsPath
<1> QED
  BY <1>2, <1>3

LEMMA FixPathStartKeepsInv ==
    ASSUME CorridorInv, NEW safe \in Safe, FixPathStart(safe)
    PROVE  CorridorInv'
<1>1. PathType(path) /\ (~misled => IsPath(path)) /\ safe \in Poly
  BY DEF CorridorInv, TypeOK, CorridorIsPath, PathType, IsPath, Safe
<1>2. /\ PathType(path') /\ (IsPath(path) => IsPath(path'))
      /\ path'[1] = safe /\ path'[Len(path')] = path[Len(path)]
  BY <1>1, GapIsPath DEF FixPathStart
<1>3. TypeOK'
  BY <1>1, <1>2, TypeKept DEF FixPathStart, CorridorInv, TypeOK
<1> QED
  BY <1>1, <1>2, <1>3 DEF FixPathStart, CorridorInv, IsPath, CorridorIsPath,
     StartsAtAgent, EndsAtTarget

LEMMA TrimKeepsInv ==
    ASSUME CorridorInv, NEW safe \in Safe, TrimInvalidPath(safe)
    PROVE  CorridorInv'
<1>1. /\ path \in Seq(Poly \cup {Null}) /\ Len(path) \in 1..MaxPath /\ Len(path) \in Nat
      /\ ~misled => IsPath(path)
      /\ safe \in Poly /\ MaxPath \in Nat
  BY CorridorAssumption DEF CorridorInv, TypeOK, CorridorIsPath, IsPath, Safe
<1>2. PICK n \in 0..(Len(path) - 1) :
          /\ path' = IF n = 0 THEN <<safe>> ELSE [i \in 1..n |-> path[i]]
          /\ pos' = IF n = 0 THEN safe ELSE pos
          /\ astray' = (n > 0 /\ astray)
          /\ target' = path'[Len(path')]
  BY DEF TrimInvalidPath
<1>3. cut' = FALSE /\ UNCHANGED <<mesh, misled>>
  BY DEF TrimInvalidPath
<1>4. /\ PathType(path') /\ (~misled => IsPath(path'))
      /\ path'[1] = IF n = 0 THEN safe ELSE path[1]
      /\ target' \in Poly \cup {Null}
  <2>1. CASE n = 0
    BY <1>1, <1>2, <2>1, AloneIsPath
  <2>2. CASE n > 0
    <3>1. path' = [i \in 1..n |-> path[i]]
      BY <1>2, <2>2
    <3>2. \A i \in 1..n : path[i] \in Poly \cup {Null}
      BY <1>1, <1>2
    <3>3. path' \in [1..n -> Poly \cup {Null}] /\ \A i \in 1..n : path'[i] = path[i]
      BY <3>1, <3>2
    <3>4. path' \in Seq(Poly \cup {Null}) /\ Len(path') = n
      BY <3>3, FunctionIsSeq
    <3>5. ~misled => IsPath(path')
      <4>1. n \in Nat /\ n <= Len(path)
        BY <1>1, <1>2
      <4> QED
        BY <1>1, <3>3, <3>4, <4>1, PrefixIsPath DEF IsPath
    <3>6. PathType(path')
      BY <1>1, <2>2, <3>4 DEF PathType
    <3> QED
      BY <1>2, <2>2, <3>3, <3>4, <3>5, <3>6
  <2> QED
    BY <1>2, <2>1, <2>2
<1>5. TypeOK'
  <2>1. pos' \in Poly \cup {Null} /\ astray' \in BOOLEAN /\ misled' \in BOOLEAN
    BY <1>1, <1>2, <1>3 DEF CorridorInv, TypeOK
  <2> QED
    BY <1>3, <1>4, <2>1, TypeKept DEF CorridorInv
<1>6. StartsAtAgent'
  <2> SUFFICES ASSUME ~astray' PROVE path'[1] = pos'
    BY DEF StartsAtAgent
  <2>1. n = 0 \/ ~astray
    <3>1. ~(n > 0) \/ ~astray
      BY <1>2, Zenon
    <3> QED
      BY <1>1, <1>2, <3>1
  <2> QED
    BY <1>2, <1>4, <2>1 DEF CorridorInv, StartsAtAgent
<1> QED
  BY <1>2, <1>3, <1>4, <1>5, <1>6 DEF CorridorInv, IsPath, CorridorIsPath, EndsAtTarget

\* The mesh changes under the corridor, which keeps its references.
LEMMA MeshKeepsInv ==
    ASSUME CorridorInv, NEW x \in Place,
           RemoveTile(x) \/ AddTile(x) \/ RebuildTile(x) \/ SetPolyFlags(x)
    PROVE  CorridorInv'
<1>1. UNCHANGED <<path, pos, target, cut, astray, misled>>
  BY DEF RemoveTile, AddTile, RebuildTile, SetPolyFlags, MeshChange
<1>2. changes' \in 0..Changes
  BY CorridorAssumption DEF CorridorInv, TypeOK, RemoveTile, AddTile, RebuildTile, SetPolyFlags, MeshChange
<1>3. salt' \in [Place -> Nat]
  BY DEF CorridorInv, TypeOK, RemoveTile, AddTile, RebuildTile, SetPolyFlags
<1>4. held' \subseteq Place /\ open' \subseteq Place
  BY DEF CorridorInv, TypeOK, RemoveTile, AddTile, RebuildTile, SetPolyFlags
<1> QED
  BY <1>1, <1>2, <1>3, <1>4
  DEF CorridorInv, TypeOK, CorridorIsPath, StartsAtAgent, EndsAtTarget

LEMMA InvNext == CorridorInv /\ [Next]_vars => CorridorInv'
<1> SUFFICES ASSUME CorridorInv, [Next]_vars PROVE CorridorInv'
  OBVIOUS
<1>1. ASSUME NEW poly \in Safe \cup {Null}, Reset(poly)
      PROVE  CorridorInv'
  BY <1>1, ResetKeepsInv
<1>2. ASSUME NEW poly \in Safe, FixPathStart(poly) \/ TrimInvalidPath(poly)
      PROVE  CorridorInv'
  BY <1>2, FixPathStartKeepsInv, TrimKeepsInv
<1>3. ASSUME NEW walk \in Walks, QuickPath(walk)
      PROVE  CorridorInv'
  BY <1>3, QuickPathKeepsInv
<1>9. ASSUME OnlyFirst PROVE CorridorInv'
  BY <1>9, OnlyFirstKeepsInv
<1>4. ASSUME NEW walk \in Walks, MovePosition(walk) \/ MoveTargetPosition(walk)
      PROVE  CorridorInv'
  BY <1>4, MovePositionKeepsInv, MoveTargetKeepsInv
<1>5. ASSUME NEW walk \in Walks, OptimizePathVisibility(walk)
      PROVE  CorridorInv'
  <2>1. /\ walk[1] = path[1] /\ Walked(walk) /\ MergedShortcut(walk, TRUE)
        /\ misled' = Misled(walk) /\ TypeOK
    BY <1>5 DEF OptimizePathVisibility, CorridorInv
  <2>2. misled' \in BOOLEAN /\ (~misled' => ~misled /\ IsPath(walk))
    BY <2>1, NotMisled
  <2> QED
    BY <2>1, <2>2, MergedShortcutKeepsInv
<1>6. ASSUME NEW walk \in Walks, OptimizePathTopology(walk)
      PROVE  CorridorInv'
  <2>1. /\ MergedShortcut(walk, walk[1] = path[1]) /\ misled' = (misled \/ ~Linked(walk))
        /\ TypeOK
    BY <1>6 DEF OptimizePathTopology, CorridorInv
  <2>2. misled' \in BOOLEAN
    BY <2>1, Zenon
  <2>3. ~misled' => ~misled /\ IsPath(walk)
    BY <2>1, WalkIsPath
  <2> QED
    BY <2>1, <2>2, <2>3, MergedShortcutKeepsInv
<1>7. ASSUME NEW x \in Place,
             RemoveTile(x) \/ AddTile(x) \/ RebuildTile(x) \/ SetPolyFlags(x)
      PROVE  CorridorInv'
  BY <1>7, MeshKeepsInv
<1>8. CASE UNCHANGED vars
  BY <1>8 DEF vars, mesh, CorridorInv, TypeOK, CorridorIsPath, StartsAtAgent, EndsAtTarget
<1> QED
  BY <1>1, <1>2, <1>3, <1>4, <1>5, <1>6, <1>7, <1>8, <1>9 DEF Next

----------------------------------------------------------------------------
(* The second piece of a path *)

\* What has been kept of the first k polygons of p: it begins and ends as they
\* do, is linked if p is, and comes back to no polygon after one step.
Kept(r, p, k) ==
    /\ r \in Seq(Poly \cup {Null}) /\ Len(r) <= k
    /\ Linked(p) => Linked(r)
    /\ \A i \in 1..(Len(r) - 2) : r[i] # r[i + 2]
    /\ k = 0 => r = <<>>
    /\ k > 0 => Len(r) > 0 /\ r[1] = p[1] /\ r[Len(r)] = p[k]

\* One more polygon is kept, or the last one goes.
LEMMA SteppedKept ==
    ASSUME NEW p \in Seq(Poly \cup {Null}), NEW k \in 1..Len(p),
           NEW r, Kept(r, p, k - 1)
    PROVE  Kept(Stepped(r, p[k]), p, k)
<1> DEFINE n == Len(r)
           q == Stepped(r, p[k])
<1>1. /\ r \in Seq(Poly \cup {Null}) /\ n \in Nat /\ n <= k - 1 /\ p[k] \in Poly \cup {Null}
      /\ k \in Nat /\ k >= 1
  BY DEF Kept
<1>2. CASE n >= 2 /\ r[n - 1] = p[k]
  <2>1. q = SubSeq(r, 1, n - 1)
    BY <1>2 DEF Stepped, Front
  <2>2. q \in Seq(Poly \cup {Null}) /\ Len(q) = n - 1 /\ \A i \in 1..(n - 1) : q[i] = r[i]
    BY <1>1, <1>2, <2>1
  <2> HIDE DEF q
  <2>3. Linked(p) => Linked(q)
    <3>1. \A i \in 1..(Len(q) - 1) : /\ i \in 1..(n - 1) /\ i + 1 \in 1..(n - 1)
      BY <1>1, <1>2, <2>2
    <3> QED
      BY <2>2, <3>1 DEF Linked, Kept
  <2>4. \A i \in 1..(Len(q) - 2) : q[i] # q[i + 2]
    <3>1. \A i \in 1..(Len(q) - 2) : /\ i \in 1..(n - 2) /\ i \in 1..(n - 1) /\ i + 2 \in 1..(n - 1)
      BY <1>1, <1>2, <2>2
    <3> QED
      BY <2>2, <3>1 DEF Kept
  <2>5. k - 1 > 0 /\ 1 \in 1..(n - 1) /\ n - 1 \in 1..(n - 1)
    BY <1>1, <1>2
  <2>6. q[1] = p[1] /\ q[Len(q)] = p[k]
    BY <1>2, <2>2, <2>5 DEF Kept
  <2>7. Len(q) <= k /\ Len(q) > 0 /\ k # 0
    BY <1>1, <1>2, <2>2
  <2> QED
    BY <2>2, <2>3, <2>4, <2>6, <2>7 DEF Kept, q
<1>3. CASE ~(n >= 2 /\ r[n - 1] = p[k])
  <2>1. q = Append(r, p[k])
    BY <1>3 DEF Stepped
  <2>2. /\ q \in Seq(Poly \cup {Null}) /\ Len(q) = n + 1
        /\ \A i \in 1..n : q[i] = r[i]
        /\ q[n + 1] = p[k]
    BY <1>1, <2>1
  <2> HIDE DEF q
  <2>3. Linked(p) => Linked(q)
    <3> SUFFICES ASSUME Linked(p), NEW i \in 1..n
                 PROVE  <<q[i], q[i + 1]>> \in Neis \/ q[i] = Null \/ q[i + 1] = Null
      BY <1>1, <2>2 DEF Linked
    <3>1. CASE i = n
      <4>1. k - 1 > 0 /\ k - 1 \in 1..(Len(p) - 1) /\ (k - 1) + 1 = k
        BY <1>1
      <4>2. q[i] = p[k - 1] /\ q[i + 1] = p[k]
        BY <2>2, <3>1, <4>1 DEF Kept
      <4> QED
        BY <4>1, <4>2 DEF Linked
    <3>2. CASE i # n
      <4>1. i \in 1..(n - 1) /\ i + 1 \in 1..n
        BY <1>1, <3>2
      <4> QED
        BY <2>2, <4>1 DEF Linked, Kept
    <3> QED
      BY <3>1, <3>2
  <2>4. ASSUME NEW i \in 1..(Len(q) - 2) PROVE q[i] # q[i + 2]
    <3>1. i \in 1..(n - 1) /\ i \in 1..n
      BY <1>1, <2>2
    <3>2. CASE i = n - 1
      <4>1. n >= 2 /\ i + 2 = n + 1
        BY <1>1, <3>1, <3>2
      <4> QED
        BY <1>3, <2>2, <3>1, <3>2, <4>1
    <3>3. CASE i # n - 1
      <4>1. i \in 1..(n - 2) /\ i + 2 \in 1..n
        BY <1>1, <3>1, <3>3
      <4> QED
        BY <2>2, <3>1, <4>1 DEF Kept
    <3> QED
      BY <3>2, <3>3
  <2>5. q[1] = p[1]
    <3>1. CASE k = 1
      <4>1. r = <<>> /\ n = 0
        BY <1>1, <3>1 DEF Kept
      <4> QED
        BY <2>2, <3>1, <4>1
    <3>2. CASE k # 1
      <4>1. k - 1 > 0
        BY <1>1, <3>2
      <4>2. n > 0 /\ r[1] = p[1]
        BY <4>1 DEF Kept
      <4>3. 1 \in 1..n
        BY <1>1, <4>2
      <4> QED
        BY <2>2, <4>2, <4>3
    <3> QED
      BY <3>1, <3>2
  <2>6. q[Len(q)] = p[k] /\ Len(q) <= k /\ Len(q) > 0 /\ k # 0
    BY <1>1, <2>2
  <2> QED
    BY <2>2, <2>3, <2>4, <2>5, <2>6 DEF Kept, q
<1> QED
  BY <1>2, <1>3

\* What is left of a path without its trackbacks begins and ends as the path
\* does, is free of them, and linked if the path is (updateMoveRequest).
LEMMA UntrackedIsPath ==
    ASSUME NEW p \in Seq(Poly \cup {Null}), Len(p) > 0
    PROVE  /\ Untracked(p) \in Seq(Poly \cup {Null})
           /\ NoTrackback(Untracked(p)) /\ (Linked(p) => Linked(Untracked(p)))
           /\ Len(Untracked(p)) \in 1..Len(p)
           /\ Untracked(p)[1] = p[1] /\ Untracked(p)[Len(Untracked(p))] = p[Len(p)]
<1> DEFINE n == Len(p)
           S == Seq(Poly \cup {Null})
           step == [k \in 1..n |-> [r \in S |-> Stepped(r, p[k])]]
           Eq(f) == f = [k \in 0..n |-> IF k = 0 THEN <<>> ELSE Stepped(f[k - 1], p[k])]
           K == CHOOSE f : Eq(f)
<1>1. Untracked(p) = K[n]
  BY DEF Untracked
<1>2. n \in Nat /\ n > 0 /\ <<>> \in S /\ \A k \in 1..n : p[k] \in Poly \cup {Null}
  OBVIOUS
<1>3. ASSUME NEW k \in 1..n, NEW r \in S PROVE Stepped(r, p[k]) \in S
  BY <1>2 DEF Stepped, Front
<1>4. \E f : Eq(f)
  <2>1. step \in [1..n -> [S -> S]]
    BY <1>3
  <2> HIDE DEF step, S, n
  <2>2. PICK f \in [0..n -> S] : IsRun(f, n, <<>>, step)
    BY <1>2, <2>1, Recursion
  <2>3. \A k \in 1..n : k - 1 \in 0..n /\ f[k - 1] \in S
    BY <1>2, <2>2
  <2>4. \A k \in 1..n : f[k] = Stepped(f[k - 1], p[k])
    BY <2>2, <2>3 DEF IsRun, step
  <2>5. \A k \in 0..n : k # 0 => k \in 1..n
    BY <1>2
  <2>6. f[0] = <<>>
    BY <2>2 DEF IsRun
  <2>7. Eq(f)
    BY <2>2, <2>4, <2>5, <2>6
  <2> QED
    BY <2>7
<1>5. Eq(K)
  <2> HIDE DEF Eq
  <2> QED
    BY <1>4
<1> HIDE DEF K
<1>6. K[0] = <<>> /\ \A k \in 1..n : K[k] = Stepped(K[k - 1], p[k])
  <2>1. 0 \in 0..n /\ \A k \in 1..n : k \in 0..n /\ k # 0
    BY <1>2
  <2> QED
    BY <1>5, <2>1
<1> HIDE DEF Eq
<1>7. Kept(K[n], p, n)
  <2> DEFINE T == {k \in 0..n : Kept(K[k], p, k)}
  <2>1. 0 \in T
    <3> DEFINE e == <<>>
    <3>1. e \in S /\ Len(e) = 0
      OBVIOUS
    <3>2. Linked(e)
      BY <3>1 DEF Linked
    <3> HIDE DEF e
    <3>3. Kept(e, p, 0)
      BY <3>1, <3>2 DEF Kept, e
    <3>4. K[0] = e /\ 0 \in 0..n
      BY <1>2, <1>6 DEF e
    <3> QED
      BY <3>3, <3>4
  <2>2. \A k \in 1..n : k - 1 \in T => k \in T
    BY <1>2, <1>6, SteppedKept
  <2> HIDE DEF T
  <2>3. 0..n \subseteq T
    BY <1>2, <2>1, <2>2, UpTo
  <2>4. n \in T
    BY <1>2, <2>3
  <2> QED
    BY <2>4 DEF T
<1> QED
  BY <1>1, <1>2, <1>7 DEF Kept, NoTrackback

\* p holds what a holds and then what b holds.
HoldsBoth(p, a, b, S) ==
    /\ p \in Seq(S) /\ Len(p) = Len(a) + Len(b)
    /\ \A i \in 1..Len(a) : p[i] = a[i]
    /\ \A i \in 1..Len(b) : p[Len(a) + i] = b[i]

\* Two sequences joined hold both.
LEMMA ConcatFacts ==
    ASSUME NEW S, NEW a \in Seq(S), NEW b \in Seq(S)
    PROVE  HoldsBoth(a \o b, a, b, S)
<1>1. a \o b \in Seq(S) /\ Len(a \o b) = Len(a) + Len(b) /\ Len(a) \in Nat /\ Len(b) \in Nat
  OBVIOUS
<1>2. \A i \in 1..Len(a) : (a \o b)[i] = a[i]
  BY <1>1
<1>3. \A i \in 1..Len(b) : (a \o b)[Len(a) + i] = b[i]
  BY <1>1
<1> QED
  BY <1>1, <1>2, <1>3 DEF HoldsBoth

\* How much of a result fits behind the n polygons kept, one of them shared.
LEMMA FittingPart ==
    ASSUME NEW n \in 1..MaxPath, NEW l \in 1..MaxPath, n # 1
    PROVE  /\ Cap(n - 1 + l) - n + 1 \in 1..l
           /\ n - 1 + (Cap(n - 1 + l) - n + 1) <= MaxPath
<1>1. MaxPath \in Nat /\ n \in Nat /\ l \in Nat /\ n > 1 /\ n <= MaxPath /\ l >= 1
  BY CorridorAssumption
<1>2. CASE n - 1 + l > MaxPath
  <2>1. Cap(n - 1 + l) = MaxPath
    BY <1>2 DEF Cap
  <2> QED
    BY <1>1, <1>2, <2>1
<1>3. CASE ~(n - 1 + l > MaxPath)
  <2>1. Cap(n - 1 + l) = n - 1 + l
    BY <1>3 DEF Cap
  <2> QED
    BY <1>1, <1>3, <2>1
<1> QED
  BY <1>2, <1>3

\* The old path without its end, and the first m of the new one: they fit if
\* the new one leads on from the old one's end and there is room.
JoinOf(old, res, m) == Front(old) \o SubSeq(res, 1, m)
Fit(old, res, m) ==
    /\ PathType(old) /\ Len(old) > 1 /\ WalkType(res)
    /\ res[1] = old[Len(old)] /\ m \in 1..Len(res) /\ Len(old) - 1 + m <= MaxPath
Carries(p, old, res) ==
    PathType(p) /\ p[1] = old[1] /\ (Linked(old) /\ Linked(res) => Linked(p))

\* The old path without its end and as much of the new one as fits are a
\* corridor, linked if both are.
LEMMA JoinIsLinked ==
    ASSUME NEW old, NEW res, NEW m, Fit(old, res, m)
    PROVE  Carries(JoinOf(old, res, m), old, res)
<1> DEFINE n == Len(old)
           a == Front(old)
           b == SubSeq(res, 1, m)
           p == JoinOf(old, res, m)
<1>0. /\ PathType(old) /\ Len(old) > 1 /\ WalkType(res)
      /\ res[1] = old[n] /\ m \in 1..Len(res) /\ n - 1 + m <= MaxPath
  BY DEF Fit
<1>1. /\ n \in Nat /\ n > 1 /\ m \in Nat /\ m >= 1 /\ n - 1 + m <= MaxPath /\ MaxPath \in Nat
      /\ old \in Seq(Poly \cup {Null}) /\ res \in Seq(Poly \cup {Null}) /\ Len(res) \in Nat
  BY <1>0, CorridorAssumption DEF PathType, WalkType
<1>2. a \in Seq(Poly \cup {Null}) /\ Len(a) = n - 1 /\ \A i \in 1..(n - 1) : a[i] = old[i]
  BY <1>1 DEF Front
<1>3. b \in Seq(Poly \cup {Null}) /\ Len(b) = m /\ \A i \in 1..m : b[i] = res[i]
  BY <1>0, <1>1
<1>4. p = a \o b
  BY DEF JoinOf
<1> HIDE DEF a, b, p
<1>5. /\ p \in Seq(Poly \cup {Null}) /\ Len(p) = n - 1 + m
      /\ \A i \in 1..(n - 1) : p[i] = old[i]
      /\ \A i \in 1..m : p[n - 1 + i] = res[i]
  <2>1. /\ p \in Seq(Poly \cup {Null}) /\ Len(p) = Len(a) + Len(b)
        /\ \A i \in 1..Len(a) : p[i] = a[i]
        /\ \A i \in 1..Len(b) : p[Len(a) + i] = b[i]
    <3>1. a \in Seq(Poly \cup {Null}) /\ b \in Seq(Poly \cup {Null})
      BY <1>2, <1>3
    <3>2. HoldsBoth(p, a, b, Poly \cup {Null})
      BY <1>4, <3>1, ConcatFacts
    <3> QED
      BY <3>2, Zenon DEF HoldsBoth
  <2>2. Len(a) = n - 1 /\ Len(b) = m
    BY <1>2, <1>3
  <2> HIDE DEF n
  <2> QED
    BY <1>2, <1>3, <2>1, <2>2, Zenon
<1>6. ASSUME Linked(old), Linked(res), NEW i \in 1..(Len(p) - 1)
      PROVE  <<p[i], p[i + 1]>> \in Neis \/ p[i] = Null \/ p[i + 1] = Null
  <2> DEFINE last == Len(res)
  <2>1. /\ n \in Nat /\ n > 1 /\ m \in Nat /\ m >= 1 /\ last \in Nat /\ m <= last
        /\ i \in 1..(n - 1 + m - 1)
    BY <1>0, <1>1, <1>5
  <2>2. /\ \A k \in 1..(n - 1) : <<old[k], old[k + 1]>> \in Neis \/ old[k] = Null \/ old[k + 1] = Null
        /\ \A k \in 1..(last - 1) : <<res[k], res[k + 1]>> \in Neis \/ res[k] = Null \/ res[k + 1] = Null
    BY <1>0, <1>6 DEF Linked
  <2>3. /\ \A k \in 1..(n - 1) : p[k] = old[k]
        /\ \A k \in 1..m : p[n - 1 + k] = res[k]
        /\ res[1] = old[n]
    BY <1>0, <1>5
  <2> HIDE DEF n, last
  <2>4. CASE i < n - 1
    <3>1. i \in 1..(n - 1) /\ i + 1 \in 1..(n - 1)
      BY <2>1, <2>4
    <3>2. p[i] = old[i] /\ p[i + 1] = old[i + 1]
      BY <2>3, <3>1, Zenon
    <3> QED
      BY <2>2, <3>1, <3>2, Zenon
  <2>5. CASE i = n - 1
    <3>1. i \in 1..(n - 1) /\ i + 1 = n - 1 + 1 /\ 1 \in 1..m /\ i + 1 = n
      BY <2>1, <2>5
    <3>2. p[i] = old[i] /\ p[n - 1 + 1] = res[1]
      BY <2>3, <3>1, Zenon
    <3>3. p[i + 1] = old[i + 1]
      BY <2>3, <3>1, <3>2, Zenon
    <3> QED
      BY <2>2, <3>1, <3>2, <3>3, Zenon
  <2>6. CASE i > n - 1
    <3>1. PICK j : j = i - (n - 1)
      OBVIOUS
    <3>2. /\ j \in 1..m /\ j + 1 \in 1..m /\ i = n - 1 + j /\ i + 1 = n - 1 + (j + 1)
          /\ j \in 1..(last - 1)
      BY <2>1, <2>6, <3>1
    <3>3. p[n - 1 + j] = res[j] /\ p[n - 1 + (j + 1)] = res[j + 1]
      BY <2>3, <3>2, Zenon
    <3>4. p[i] = res[j] /\ p[i + 1] = res[j + 1]
      BY <3>2, <3>3, Zenon
    <3> QED
      BY <2>2, <3>2, <3>4, Zenon
  <2>7. i < n - 1 \/ i = n - 1 \/ i > n - 1
    BY <2>1
  <2> QED
    BY <2>4, <2>5, <2>6, <2>7
<1>7. Linked(old) /\ Linked(res) => Linked(p)
  BY <1>6 DEF Linked
<1>8. p[1] = old[1] /\ Len(p) \in 1..MaxPath
  <2> HIDE DEF n
  <2>1. 1 \in 1..(n - 1) /\ n - 1 + m \in 1..MaxPath
    BY <1>0, <1>1
  <2> QED
    BY <1>5, <2>1, Zenon
<1>9. PathType(p)
  BY <1>5, <1>8 DEF PathType
<1> QED
  BY <1>7, <1>8, <1>9 DEF Carries, p

LEMMA TakeResultKeepsInv ==
    ASSUME CorridorInv, NEW res \in Walks, TakeResult(res)
    PROVE  CorridorInv'
<1> DEFINE n == Len(path)
           m == Cap(n - 1 + Len(res)) - n + 1
           p == JoinOf(path, res, m)
<1>1. /\ TypeOK /\ PathType(path) /\ WalkType(res) /\ (Linked(res) => IsPath(res))
      /\ res[1] = path[n] /\ n \in 1..MaxPath /\ Len(res) \in 1..MaxPath /\ MaxPath \in Nat
  BY VisitedIsWalk, WalkIsPath, CorridorAssumption
  DEF CorridorInv, TypeOK, PathType, WalkType, TakeResult, Last
<1>2. /\ path' = Appended(path, res) /\ target' = path'[Len(path')] /\ cut' = FALSE
      /\ misled' = ((misled /\ n > 1) \/ ~Linked(res)) /\ UNCHANGED <<pos, mesh, astray>>
  BY DEF TakeResult, SetCorridor, Last
<1>7. (~misled' => Linked(res)) /\ (~misled' /\ n > 1 => ~misled)
  BY <1>2, Zenon
<1>3. PathType(path') /\ path'[1] = path[1] /\ (~misled' => IsPath(path'))
  <2>1. CASE n = 1
    <3>1. path' = res
      BY <1>2, <2>1 DEF Appended
    <3>2. res \in Seq(Poly \cup {Null})
      BY <1>1 DEF WalkType
    <3> QED
      BY <1>1, <1>7, <2>1, <3>1, <3>2 DEF PathType
  <2>2. CASE n # 1
    <3>1. m \in 1..Len(res) /\ n - 1 + m <= MaxPath /\ n > 1
      <4>1. n \in 1..MaxPath /\ Len(res) \in 1..MaxPath /\ MaxPath \in Nat /\ n # 1
        BY <1>1, <2>2
      <4> HIDE DEF n
      <4>2. n > 1
        BY <4>1
      <4>3. /\ Cap(n - 1 + Len(res)) - n + 1 \in 1..Len(res)
            /\ n - 1 + (Cap(n - 1 + Len(res)) - n + 1) <= MaxPath
        BY <4>1, FittingPart, Zenon
      <4> QED
        BY <4>2, <4>3
    <3>2. path' = Untracked(p)
      BY <1>2, <2>2 DEF Appended, JoinOf
    <3>3. PathType(p) /\ p[1] = path[1] /\ (Linked(path) /\ Linked(res) => Linked(p))
      <4> HIDE DEF m
      <4>1. Fit(path, res, m)
        BY <1>1, <3>1 DEF Fit
      <4>2. Carries(p, path, res)
        BY <4>1, JoinIsLinked
      <4> QED
        BY <4>2, Zenon DEF Carries
    <3> HIDE DEF p
    <3>4. /\ Untracked(p) \in Seq(Poly \cup {Null}) /\ Len(Untracked(p)) \in 1..Len(p)
          /\ NoTrackback(Untracked(p)) /\ (Linked(p) => Linked(Untracked(p)))
          /\ Untracked(p)[1] = p[1]
      BY <3>3, UntrackedIsPath DEF PathType
    <3>5. Len(Untracked(p)) \in 1..MaxPath
      BY <1>1, <3>3, <3>4 DEF PathType
    <3>6. ~misled' => Linked(path) /\ Linked(res)
      BY <1>7, <3>1 DEF CorridorInv, CorridorIsPath
    <3> QED
      BY <3>2, <3>3, <3>4, <3>5, <3>6 DEF PathType, IsPath
  <2> QED
    BY <2>1, <2>2
<1>4. target' \in Poly \cup {Null} /\ misled' \in BOOLEAN
  <2>1. misled' \in BOOLEAN
    BY <1>2, Zenon
  <2> QED
    BY <1>2, <1>3, <2>1 DEF PathType
<1>5. TypeOK'
  BY <1>1, <1>2, <1>3, <1>4 DEF TypeOK, PathType, mesh
<1>6. CorridorIsPath' /\ StartsAtAgent' /\ EndsAtTarget'
  BY <1>2, <1>3 DEF CorridorInv, CorridorIsPath, StartsAtAgent, EndsAtTarget, IsPath
<1> QED
  BY <1>5, <1>6 DEF CorridorInv

LEMMA SpecKeepsInv == AgentSpec => []CorridorInv
<1>1. CorridorInv /\ [AgentNext]_vars => CorridorInv'
  BY InvNext, TakeResultKeepsInv DEF AgentNext
<1> QED
  BY <1>1, InvInit, PTL DEF AgentSpec

\* Whatever the order of moves, short cuts, repairs, late answers and removals, a
\* corridor is never longer than its array, and it is a path: linked polygon by
\* polygon, and never turning back at once, as long as no query took an outdated
\* reference for another polygon and no search brought a path that is broken
\* (the merges of path_corridor.go).
THEOREM CorridorStaysPath == AgentSpec => [](TypeOK /\ CorridorIsPath)
<1>1. CorridorInv => TypeOK /\ CorridorIsPath
  BY DEF CorridorInv
<1> QED
  BY <1>1, SpecKeepsInv, PTL

\* The corridor starts at the agent's polygon, whatever searches replace it, as
\* long as no walk was longer than what is reported and no search that was
\* refused brought a path from elsewhere (MovePosition, updateMoveRequest).
THEOREM CorridorStartsAtAgent == AgentSpec => []StartsAtAgent
<1>1. CorridorInv => StartsAtAgent
  BY DEF CorridorInv
<1> QED
  BY <1>1, SpecKeepsInv, PTL

\* The corridor ends at the target's polygon as long as nothing was cut off.
THEOREM CorridorEndsAtTarget == AgentSpec => []EndsAtTarget
<1>1. CorridorInv => EndsAtTarget
  BY DEF CorridorInv
<1> QED
  BY <1>1, SpecKeepsInv, PTL
=============================================================================
