---------------------------- MODULE NavMeshProofs ----------------------------
(***************************************************************************)
(* Theorems about NavMesh: its slots, its references, its links, and that   *)
(* it implements TileDirectory.                                             *)
(***************************************************************************)
EXTENDS NavMesh, SequenceTheorems, FiniteSetTheorems, TLAPS

----------------------------------------------------------------------------
(* The free list *)

\* What is left of a sequence without its k-th element: all other elements,
\* and of one without repetitions not that one.
LEMMA RemovedElements ==
    ASSUME NEW S, NEW s \in Seq(S), NEW k \in DOMAIN s
    PROVE  /\ RemoveAt(s, k) \in Seq(S)
           /\ IsInjective(s) => /\ IsInjective(RemoveAt(s, k))
                                /\ Range(RemoveAt(s, k)) = Range(s) \ {s[k]}
<1> DEFINE left == SubSeq(s, 1, k - 1)
           right == SubSeq(s, k + 1, Len(s))
           r == left \o right
<1>1. /\ Len(s) \in Nat /\ DOMAIN s = 1..Len(s) /\ k \in 1..Len(s)
      /\ \A i \in 1..Len(s) : s[i] \in S
  OBVIOUS
<1>2. /\ left \in Seq(S) /\ Len(left) = k - 1
      /\ \A i \in 1..(k - 1) : left[i] = s[i]
  <2>1. \A i \in 1..(k - 1) : s[i] \in S
    BY <1>1
  <2>2. 1 \in Int /\ k - 1 \in Int
    BY <1>1
  <2> HIDE DEF left
  <2>3. /\ SubSeq(s, 1, k - 1) \in Seq(S)
        /\ Len(SubSeq(s, 1, k - 1)) = IF 1 <= k - 1 THEN k - 1 - 1 + 1 ELSE 0
        /\ \A i \in 1..(k - 1 - 1 + 1) : SubSeq(s, 1, k - 1)[i] = s[1 + i - 1]
    BY <2>1, <2>2, SubSeqProperties
  <2>4. /\ left \in Seq(S)
        /\ Len(left) = IF 1 <= k - 1 THEN k - 1 - 1 + 1 ELSE 0
        /\ \A i \in 1..(k - 1 - 1 + 1) : left[i] = s[1 + i - 1]
    BY <2>3 DEF left
  <2> QED
    BY <1>1, <2>4
<1>3. /\ right \in Seq(S) /\ Len(right) = Len(s) - k
      /\ \A i \in 1..(Len(s) - k) : right[i] = s[k + i]
  <2>1. \A i \in (k + 1)..Len(s) : s[i] \in S
    BY <1>1
  <2>2. k + 1 \in Int /\ Len(s) \in Int
    BY <1>1
  <2> HIDE DEF right
  <2>3. /\ SubSeq(s, k + 1, Len(s)) \in Seq(S)
        /\ Len(SubSeq(s, k + 1, Len(s))) = IF k + 1 <= Len(s) THEN Len(s) - (k + 1) + 1 ELSE 0
        /\ \A i \in 1..(Len(s) - (k + 1) + 1) : SubSeq(s, k + 1, Len(s))[i] = s[k + 1 + i - 1]
    BY <2>1, <2>2, SubSeqProperties
  <2>4. /\ right \in Seq(S)
        /\ Len(right) = IF k + 1 <= Len(s) THEN Len(s) - (k + 1) + 1 ELSE 0
        /\ \A i \in 1..(Len(s) - (k + 1) + 1) : right[i] = s[k + 1 + i - 1]
    BY <2>3 DEF right
  <2>5. Len(right) = Len(s) - k /\ Len(s) - (k + 1) + 1 = Len(s) - k
    BY <1>1, <2>4
  <2>6. ASSUME NEW i \in 1..(Len(s) - k) PROVE right[i] = s[k + i]
    <3>1. k + 1 + i - 1 = k + i
      BY <1>1
    <3>2. right[i] = s[k + 1 + i - 1]
      BY <2>4, <2>5
    <3> QED
      BY <3>1, <3>2
  <2> QED
    BY <2>4, <2>5, <2>6
<1> HIDE DEF left, right
<1>4. /\ r \in Seq(S) /\ DOMAIN r = 1..(Len(s) - 1)
      /\ \A i \in 1..(Len(s) - 1) : r[i] = IF i < k THEN s[i] ELSE s[i + 1]
  <2>1. /\ r \in Seq(S) /\ Len(r) = Len(left) + Len(right)
        /\ \A i \in 1..(Len(left) + Len(right)) :
              r[i] = IF i <= Len(left) THEN left[i] ELSE right[i - Len(left)]
    BY <1>2, <1>3, ConcatProperties
  <2>2. DOMAIN r = 1..Len(r) /\ Len(r) = Len(s) - 1
    BY <1>1, <1>2, <1>3, <2>1
  <2> HIDE DEF r
  <2>3. ASSUME NEW i \in 1..(Len(s) - 1) PROVE r[i] = IF i < k THEN s[i] ELSE s[i + 1]
    <3>1. r[i] = IF i <= k - 1 THEN left[i] ELSE right[i - (k - 1)]
      BY <1>1, <1>2, <1>3, <2>1
    <3>2. CASE i < k
      BY <1>1, <1>2, <3>1, <3>2
    <3>3. CASE ~(i < k)
      <4>1. i - (k - 1) \in 1..(Len(s) - k) /\ k + (i - (k - 1)) = i + 1
        BY <1>1, <3>3
      <4>2. right[i - (k - 1)] = s[k + (i - (k - 1))]
        BY <1>3, <4>1
      <4> QED
        BY <1>1, <3>1, <3>3, <4>1, <4>2
    <3> QED
      BY <3>2, <3>3
  <2> QED
    BY <2>1, <2>2, <2>3
<1>5. r = RemoveAt(s, k)
  BY DEF RemoveAt, left, right
<1> HIDE DEF r
<1>6. ASSUME IsInjective(s) PROVE IsInjective(r) /\ Range(r) = Range(s) \ {s[k]}
  <2>1. \A i, j \in 1..Len(s) : s[i] = s[j] => i = j
    BY <1>1, <1>6 DEF IsInjective
  <2>2. IsInjective(r)
    <3>1. ASSUME NEW i \in 1..(Len(s) - 1), NEW j \in 1..(Len(s) - 1), r[i] = r[j] PROVE i = j
      <4>1. /\ i \in 1..Len(s) /\ i + 1 \in 1..Len(s)
            /\ j \in 1..Len(s) /\ j + 1 \in 1..Len(s)
        BY <1>1
      <4>2. /\ r[i] = IF i < k THEN s[i] ELSE s[i + 1]
            /\ r[j] = IF j < k THEN s[j] ELSE s[j + 1]
        BY <1>4
      <4>3. CASE i < k /\ j < k
        BY <2>1, <3>1, <4>1, <4>2, <4>3
      <4>4. CASE ~(i < k) /\ ~(j < k)
        <5>1. i + 1 = j + 1
          BY <2>1, <3>1, <4>1, <4>2, <4>4
        <5> QED
          BY <5>1
      <4>5. CASE i < k /\ ~(j < k)
        <5>1. i = j + 1
          BY <2>1, <3>1, <4>1, <4>2, <4>5
        <5> QED
          BY <1>1, <4>5, <5>1
      <4>6. CASE ~(i < k) /\ j < k
        <5>1. i + 1 = j
          BY <2>1, <3>1, <4>1, <4>2, <4>6
        <5> QED
          BY <1>1, <4>6, <5>1
      <4> QED
        BY <4>3, <4>4, <4>5, <4>6
    <3> QED
      BY <1>4, <3>1 DEF IsInjective
  <2>3. ASSUME NEW i \in 1..(Len(s) - 1) PROVE r[i] \in Range(s) \ {s[k]}
    <3>1. i \in 1..Len(s) /\ i + 1 \in 1..Len(s)
      BY <1>1
    <3>2. r[i] = IF i < k THEN s[i] ELSE s[i + 1]
      BY <1>4
    <3> QED
      BY <1>1, <2>1, <3>1, <3>2 DEF Range
  <2>4. ASSUME NEW i \in 1..Len(s), i # k PROVE s[i] \in Range(r)
    <3>1. CASE i < k
      <4>1. i \in 1..(Len(s) - 1) /\ r[i] = s[i]
        BY <1>1, <1>4, <3>1
      <4> QED
        BY <1>4, <4>1 DEF Range
    <3>2. CASE i > k
      <4>1. i - 1 \in 1..(Len(s) - 1) /\ ~(i - 1 < k) /\ i - 1 + 1 = i
        BY <1>1, <3>2
      <4>2. r[i - 1] = s[i]
        BY <1>4, <4>1
      <4> QED
        BY <1>4, <4>1, <4>2 DEF Range
    <3> QED
      BY <1>1, <2>4, <3>1, <3>2
  <2> QED
    BY <1>1, <1>4, <2>2, <2>3, <2>4 DEF Range
<1> QED
  BY <1>4, <1>5, <1>6

\* A sequence with a new first element holds it and nothing else new.
LEMMA PushedElements ==
    ASSUME NEW S, NEW s \in Seq(S), NEW e \in S
    PROVE  /\ <<e>> \o s \in Seq(S)
           /\ Range(<<e>> \o s) = Range(s) \cup {e}
           /\ IsInjective(s) /\ e \notin Range(s) => IsInjective(<<e>> \o s)
<1> DEFINE r == <<e>> \o s
<1>1. Len(s) \in Nat /\ DOMAIN s = 1..Len(s) /\ <<e>> \in Seq(S) /\ Len(<<e>>) = 1 /\ <<e>>[1] = e
  OBVIOUS
<1>2. /\ r \in Seq(S) /\ DOMAIN r = 1..(Len(s) + 1)
      /\ \A i \in 1..(Len(s) + 1) : r[i] = IF i = 1 THEN e ELSE s[i - 1]
  <2>1. /\ r \in Seq(S) /\ Len(r) = Len(<<e>>) + Len(s)
        /\ \A i \in 1..(Len(<<e>>) + Len(s)) :
              r[i] = IF i <= Len(<<e>>) THEN <<e>>[i] ELSE s[i - Len(<<e>>)]
    BY <1>1, ConcatProperties
  <2>2. DOMAIN r = 1..Len(r) /\ Len(r) = Len(s) + 1
    BY <1>1, <2>1
  <2> HIDE DEF r
  <2>3. ASSUME NEW i \in 1..(Len(s) + 1) PROVE r[i] = IF i = 1 THEN e ELSE s[i - 1]
    <3>1. r[i] = IF i <= 1 THEN <<e>>[i] ELSE s[i - 1]
      BY <1>1, <2>1
    <3> QED
      BY <1>1, <3>1
  <2> QED
    BY <2>1, <2>2, <2>3
<1> HIDE DEF r
<1>3. Range(r) = Range(s) \cup {e}
  <2>1. \A i \in 1..(Len(s) + 1) : r[i] \in Range(s) \cup {e}
    <3> SUFFICES ASSUME NEW i \in 1..(Len(s) + 1) PROVE r[i] \in Range(s) \cup {e}
      OBVIOUS
    <3>1. i # 1 => i - 1 \in 1..Len(s)
      BY <1>1
    <3> QED
      BY <1>1, <1>2, <3>1 DEF Range
  <2>2. \A i \in 1..Len(s) : s[i] \in Range(r)
    <3> SUFFICES ASSUME NEW i \in 1..Len(s) PROVE s[i] \in Range(r)
      OBVIOUS
    <3>1. i + 1 \in 1..(Len(s) + 1) /\ r[i + 1] = s[i]
      BY <1>1, <1>2
    <3> QED
      BY <1>2, <3>1 DEF Range
  <2>3. e \in Range(r)
    BY <1>1, <1>2 DEF Range
  <2> QED
    BY <1>1, <1>2, <2>1, <2>2, <2>3 DEF Range
<1>4. ASSUME IsInjective(s), e \notin Range(s) PROVE IsInjective(r)
  <2>1. ASSUME NEW i \in 1..(Len(s) + 1), NEW j \in 1..(Len(s) + 1), r[i] = r[j] PROVE i = j
    <3>1. (i # 1 => i - 1 \in 1..Len(s)) /\ (j # 1 => j - 1 \in 1..Len(s))
      BY <1>1
    <3>2. /\ r[i] = IF i = 1 THEN e ELSE s[i - 1]
          /\ r[j] = IF j = 1 THEN e ELSE s[j - 1]
      BY <1>2
    <3>3. \A k \in 1..Len(s) : s[k] # e
      BY <1>1, <1>4 DEF Range
    <3>4. \A k, m \in 1..Len(s) : s[k] = s[m] => k = m
      BY <1>1, <1>4 DEF IsInjective
    <3>5. CASE i = 1 \/ j = 1
      BY <2>1, <3>1, <3>2, <3>3, <3>5
    <3>6. CASE i # 1 /\ j # 1
      <4>1. i - 1 = j - 1
        BY <2>1, <3>1, <3>2, <3>4, <3>6
      <4> QED
        BY <4>1
    <3> QED
      BY <3>5, <3>6
  <2> QED
    BY <1>2, <2>1 DEF IsInjective
<1> QED
  BY <1>2, <1>3, <1>4 DEF r

----------------------------------------------------------------------------
(* Slots *)

\* The constants, in the form the proofs use.
LEMMA Constants ==
    /\ TileRef = [slot : TileSlot, salt : 1..(SaltMod - 1)]
    /\ MaxTiles \in Nat \ {0} /\ SaltMod \in Nat /\ SaltMod >= 3 /\ SaltBound \in Nat
    /\ NoData \notin Data /\ NoRef \notin TileRef
    /\ \A d \in Data : CellOf[d] \in DOMAIN Hash /\ Hash[CellOf[d]] \in Buckets
    /\ \A d \in Data : CellOf[d] \in Int \X Int /\ LayerOf[d] \in Nat
    /\ DOMAIN Hash = {CellOf[d] : d \in Data}
  BY NavMeshAssumption, DataAssumption DEF MeshRef

Tile == [salt : 1..(SaltMod - 1), data : Data \cup {NoData}]

SlotTypes ==
    /\ tiles \in [TileSlot -> Tile]
    /\ nextFree \in Seq(TileSlot)
    /\ posLookup \in [Buckets -> SUBSET TileSlot]
    /\ issued \in SUBSET TileRef
    /\ panicked \in BOOLEAN

SlotInv == SlotTypes /\ SlotsExact

\* The bucket of a slot in use is the one of its tile's cell.
LEMMA Chains ==
    ASSUME SlotInv, NEW c \in DOMAIN Hash
    PROVE  Chained(c) = {i \in InUse : CellOf[tiles[i].data] = c}
<1>1. Hash[c] \in Buckets
  BY NavMeshAssumption
<1> QED
  BY <1>1 DEF SlotInv, SlotsExact, Chained

\* A place with no tile in its chain has no tile at all.
LEMMA PlaceFree ==
    ASSUME SlotInv, NEW d \in Data, GetTileAt(d) = {}, NEW j \in InUse
    PROVE  LocOf(tiles[j].data) # LocOf(d)
<1>1. CellOf[d] \in DOMAIN Hash
  BY Constants
<1>2. LocOf(tiles[j].data) = LocOf(d) => CellOf[tiles[j].data] = CellOf[d]
  BY DEF LocOf
<1> QED
  BY <1>1, <1>2, Chains DEF GetTileAt

\* A tile that comes takes slot i, free until then, under a reference of it.
Placed(d, lastRef, i, ref) ==
    /\ i \notin InUse /\ ref.slot = i
    /\ ref = IF lastRef = NoRef THEN GetTileRef(i) ELSE lastRef
    /\ \A j \in InUse : LocOf(tiles[j].data) # LocOf(d)
    /\ nextFree' \in Seq(TileSlot) /\ IsInjective(nextFree')
    /\ Range(nextFree') = Range(nextFree) \ {i}
    /\ tiles' = [tiles EXCEPT ![i] = [salt |-> ref.salt, data |-> d]]
    /\ posLookup' = [posLookup EXCEPT ![Hash[CellOf[d]]] = @ \cup {i}]
    /\ issued' = issued \cup {ref}
    /\ panicked' = panicked

\* Its links, but for those that found no room.
Room(d, i, ref) == [pool EXCEPT ![i] = MaxLinks[d] - Cardinality(InnerLinks(ref, d))]
Linked(d, i, ref) ==
    \E lost \in Lost(Wanted(ref, d), Room(d, i, ref)) :
        /\ links' = links \cup InnerLinks(ref, d) \cup (Wanted(ref, d) \ lost)
        /\ missing' = missing \cup lost
        /\ pool' = [j \in TileSlot |->
              Room(d, i, ref)[j] - Cardinality(HeldBy(Wanted(ref, d) \ lost, j))]

\* What a panic leaves as it is.
MeshKept == UNCHANGED <<tiles, nextFree, posLookup, links, pool, missing, issued>>

\* What AddTile does: nothing to the mesh when it panics, and else one tile more.
LEMMA AddEffect ==
    ASSUME SlotInv, NEW d \in Data, NEW lastRef \in TileRef \cup {NoRef}, AddTile(d, lastRef)
    PROVE  \/ MeshKept /\ panicked' = TRUE /\ d \in OffMesh
           \/ \E i \in TileSlot, ref \in TileRef : Placed(d, lastRef, i, ref) /\ Linked(d, i, ref)
<1>1. PICK k \in SlotFor(lastRef) : AddTile(d, lastRef)!3!(k)
  BY DEF AddTile
<1> DEFINE i == nextFree[k]
           ref == NewRef(i, lastRef)
<1>2. /\ nextFree \in Seq(TileSlot) /\ k \in DOMAIN nextFree
      /\ IsInjective(nextFree) /\ Range(nextFree) = TileSlot \ InUse
      /\ lastRef # NoRef => i = lastRef.slot
  BY DEF SlotInv, SlotTypes, SlotsExact, SlotFor
<1>3. /\ i \in TileSlot /\ i \notin InUse
      /\ RemoveAt(nextFree, k) \in Seq(TileSlot) /\ IsInjective(RemoveAt(nextFree, k))
      /\ Range(RemoveAt(nextFree, k)) = Range(nextFree) \ {i}
  <2>1. i \in Range(nextFree)
    BY <1>2 DEF Range
  <2> QED
    BY <1>2, <2>1, RemovedElements
<1>4. ref \in TileRef /\ ref.slot = i /\ ref = IF lastRef = NoRef THEN GetTileRef(i) ELSE lastRef
  <2>1. tiles[i].salt \in 1..(SaltMod - 1)
    BY <1>3 DEF SlotInv, SlotTypes, Tile
  <2>2. CASE lastRef = NoRef
    <3>1. ref = GetTileRef(i)
      BY <2>2 DEF NewRef
    <3> QED
      BY <1>3, <2>1, <2>2, <3>1, Constants DEF GetTileRef
  <2>3. CASE lastRef # NoRef
    BY <1>2, <2>3 DEF NewRef
  <2> QED
    BY <2>2, <2>3
<1>5. \A j \in InUse : LocOf(tiles[j].data) # LocOf(d)
  BY PlaceFree DEF AddTile
<1>6. CASE d \in OffMesh
  BY <1>1, <1>6 DEF MeshKept
<1>7. CASE d \notin OffMesh
  <2>1. /\ nextFree' = RemoveAt(nextFree, k)
        /\ tiles' = [tiles EXCEPT ![i] = [salt |-> ref.salt, data |-> d]]
        /\ posLookup' = [posLookup EXCEPT ![Hash[CellOf[d]]] = @ \cup {i}]
        /\ issued' = issued \cup {ref} /\ panicked' = panicked
        /\ Linked(d, i, ref)
    BY <1>1, <1>7 DEF Linked, Room
  <2> HIDE DEF i, ref
  <2>2. Placed(d, lastRef, i, ref)
    BY <1>3, <1>4, <1>5, <2>1 DEF Placed
  <2> QED
    BY <1>3, <1>4, <2>1, <2>2
<1> QED
  BY <1>6, <1>7

\* A tile that comes takes a slot from the free list into its own bucket.
LEMMA AddSlots ==
    ASSUME SlotInv, NEW d \in Data, NEW lastRef \in TileRef \cup {NoRef}, AddTile(d, lastRef)
    PROVE  SlotInv'
<1>1. CASE UNCHANGED <<tiles, nextFree, posLookup, issued>> /\ panicked' = TRUE
  BY <1>1 DEF SlotInv, SlotTypes, SlotsExact, InUse, LocOf
<1>2. ASSUME NEW i \in TileSlot, NEW ref \in TileRef,
             i \notin InUse, ref.slot = i,
             \A j \in InUse : LocOf(tiles[j].data) # LocOf(d),
             nextFree' \in Seq(TileSlot), IsInjective(nextFree'),
             Range(nextFree') = Range(nextFree) \ {i},
             tiles' = [tiles EXCEPT ![i] = [salt |-> ref.salt, data |-> d]],
             posLookup' = [posLookup EXCEPT ![Hash[CellOf[d]]] = @ \cup {i}],
             issued' = issued \cup {ref}, panicked' = panicked
      PROVE  SlotInv'
  <2>1. /\ tiles \in [TileSlot -> Tile] /\ posLookup \in [Buckets -> SUBSET TileSlot]
        /\ Range(nextFree) = TileSlot \ InUse
        /\ \A b \in Buckets : posLookup[b] = {j \in InUse : Hash[CellOf[tiles[j].data]] = b}
        /\ \A j, k \in InUse : LocOf(tiles[j].data) = LocOf(tiles[k].data) => j = k
    BY DEF SlotInv, SlotTypes, SlotsExact
  <2>2. Hash[CellOf[d]] \in Buckets /\ d # NoData /\ ref.salt \in 1..(SaltMod - 1)
    BY Constants
  <2>3. [salt |-> ref.salt, data |-> d] \in Tile
    BY <2>2 DEF Tile
  <2>4. /\ tiles' \in [TileSlot -> Tile] /\ tiles'[i].data = d
        /\ \A j \in TileSlot : j # i => tiles'[j] = tiles[j]
    BY <1>2, <2>1, <2>3
  <2>5. InUse' = InUse \cup {i}
    BY <2>2, <2>4 DEF InUse
  <2>6. SlotTypes'
    BY <1>2, <2>1, <2>2, <2>4 DEF SlotInv, SlotTypes
  <2>7. Range(nextFree') = TileSlot \ InUse'
    BY <1>2, <2>1, <2>5
  <2>8. ASSUME NEW b \in Buckets
        PROVE  posLookup'[b] = {j \in InUse' : Hash[CellOf[tiles'[j].data]] = b}
    <3>1. posLookup'[b] = IF b = Hash[CellOf[d]] THEN posLookup[b] \cup {i} ELSE posLookup[b]
      BY <1>2, <2>1, <2>2
    <3>2. \A j \in InUse : j # i /\ tiles'[j] = tiles[j]
      BY <1>2, <2>4 DEF InUse
    <3>3. posLookup[b] = {j \in InUse : Hash[CellOf[tiles[j].data]] = b}
      BY <2>1
    <3> QED
      BY <2>4, <2>5, <3>1, <3>2, <3>3
  <2>9. ASSUME NEW j \in InUse', NEW k \in InUse', LocOf(tiles[j].data)' = LocOf(tiles[k].data)'
        PROVE  j = k
    <3>1. LocOf(tiles'[j].data) = LocOf(tiles'[k].data)
      BY <2>9 DEF LocOf
    <3>2. \A m \in InUse : m # i /\ tiles'[m] = tiles[m]
      BY <1>2, <2>4 DEF InUse
    <3> QED
      BY <1>2, <2>1, <2>4, <2>5, <3>1, <3>2
  <2> QED
    BY <1>2, <2>6, <2>7, <2>8, <2>9 DEF SlotInv, SlotsExact
<1> QED
  BY <1>1, <1>2, AddEffect DEF MeshKept, Placed

\* A tile that goes leaves its bucket and gives its slot back.
LEMMA RemoveSlots ==
    ASSUME SlotInv, NEW ref \in TileRef, RemoveTile(ref)
    PROVE  SlotInv'
<1>1. CASE ref.slot \notin InUse
  <2>1. UNCHANGED <<tiles, nextFree, posLookup, issued>> /\ panicked' = TRUE
    BY <1>1 DEF RemoveTile
  <2> QED
    BY <2>1 DEF SlotInv, SlotTypes, SlotsExact, InUse, LocOf
<1>2. CASE ref.slot \in InUse
  <2> DEFINE i == ref.slot
             d == tiles[i].data
  <2>1. /\ tiles \in [TileSlot -> Tile] /\ posLookup \in [Buckets -> SUBSET TileSlot]
        /\ nextFree \in Seq(TileSlot) /\ IsInjective(nextFree)
        /\ Range(nextFree) = TileSlot \ InUse
        /\ \A b \in Buckets : posLookup[b] = {j \in InUse : Hash[CellOf[tiles[j].data]] = b}
        /\ \A j, k \in InUse : LocOf(tiles[j].data) = LocOf(tiles[k].data) => j = k
    BY DEF SlotInv, SlotTypes, SlotsExact
  <2>2. /\ i \in TileSlot /\ tiles[i] \in Tile /\ d \in Data
    BY <1>2, <2>1 DEF InUse, Tile
  <2>3. /\ posLookup' = [posLookup EXCEPT ![Hash[CellOf[d]]] = @ \ {i}]
        /\ tiles' = [tiles EXCEPT ![i] = [salt |-> NextSalt(tiles[i].salt), data |-> NoData]]
        /\ nextFree' = <<i>> \o nextFree
        /\ issued' = issued /\ panicked' = panicked
    BY <1>2, <2>1 DEF RemoveTile, Unlinked
  <2>4. Hash[CellOf[d]] \in Buckets
    BY <2>2, Constants
  <2>5. NextSalt(tiles[i].salt) \in 1..(SaltMod - 1)
    <3>1. PICK salt \in 1..(SaltMod - 1) : salt = tiles[i].salt
      BY <2>2 DEF Tile
    <3>2. SaltMod \in Nat \ {0} /\ salt \in 0..(SaltMod - 1)
      BY Constants
    <3>3. (salt + 1) % SaltMod \in 0..(SaltMod - 1)
      BY <3>2
    <3> QED
      BY <3>1, <3>2, <3>3, Constants DEF NextSalt
  <2> HIDE DEF i, d
  <2>6. /\ tiles' \in [TileSlot -> Tile] /\ tiles'[i].data = NoData
        /\ \A j \in TileSlot : j # i => tiles'[j] = tiles[j]
    BY <2>1, <2>2, <2>3, <2>5 DEF Tile
  <2>7. InUse' = InUse \ {i}
    BY <2>6 DEF InUse
  <2>8. /\ nextFree' \in Seq(TileSlot) /\ IsInjective(nextFree')
        /\ Range(nextFree') = Range(nextFree) \cup {i}
    BY <1>2, <2>1, <2>2, <2>3, PushedElements DEF i
  <2>9. SlotTypes'
    BY <2>1, <2>2, <2>3, <2>4, <2>6, <2>8 DEF SlotInv, SlotTypes
  <2>10. Range(nextFree') = TileSlot \ InUse'
    BY <1>2, <2>1, <2>2, <2>7, <2>8 DEF i
  <2>11. ASSUME NEW b \in Buckets
         PROVE  posLookup'[b] = {j \in InUse' : Hash[CellOf[tiles'[j].data]] = b}
    <3>1. posLookup'[b] = IF b = Hash[CellOf[d]] THEN posLookup[b] \ {i} ELSE posLookup[b]
      BY <2>1, <2>3, <2>4
    <3>2. \A j \in InUse' : j # i /\ j \in InUse /\ tiles'[j] = tiles[j]
      BY <2>6, <2>7 DEF InUse
    <3>3. posLookup[b] = {j \in InUse : Hash[CellOf[tiles[j].data]] = b}
      BY <2>1
    <3> QED
      BY <2>7, <3>1, <3>2, <3>3 DEF d
  <2>12. ASSUME NEW j \in InUse', NEW k \in InUse', LocOf(tiles[j].data)' = LocOf(tiles[k].data)'
         PROVE  j = k
    <3>1. LocOf(tiles'[j].data) = LocOf(tiles'[k].data)
      BY <2>12 DEF LocOf
    <3>2. \A m \in InUse' : m \in InUse /\ tiles'[m] = tiles[m]
      BY <2>6, <2>7 DEF InUse
    <3> QED
      BY <2>1, <3>1, <3>2
  <2> QED
    BY <2>8, <2>9, <2>10, <2>11, <2>12 DEF SlotInv, SlotsExact
<1> QED
  BY <1>1, <1>2

\* The free list holds all slots at the start.
LEMMA SlotsInit == Init => SlotInv
<1> SUFFICES ASSUME Init PROVE SlotInv
  OBVIOUS
<1>1. SlotTypes
  <2>1. [salt |-> 1, data |-> NoData] \in Tile
    BY Constants DEF Tile
  <2>2. nextFree \in Seq(TileSlot)
    BY Constants, IsASeq DEF Init, TileSlot
  <2> QED
    BY <2>1, <2>2 DEF Init, SlotTypes
<1>2. InUse = {}
  BY DEF Init, InUse
<1>3. IsInjective(nextFree) /\ Range(nextFree) = TileSlot
  BY DEF Init, IsInjective, Range, TileSlot
<1> QED
  BY <1>1, <1>2, <1>3 DEF SlotInv, SlotsExact, Init

\* Every step keeps the slots.
LEMMA SlotsStep == SlotInv /\ [Next]_vars => SlotInv'
<1>1. ASSUME SlotInv, UNCHANGED vars PROVE SlotInv'
  BY <1>1 DEF vars, SlotInv, SlotTypes, SlotsExact, InUse, LocOf
<1> QED
  BY <1>1, AddSlots, RemoveSlots DEF Next

\* No slot is lost or used twice: the free list holds the free slots once each,
\* a used slot is found in the bucket of its tile's cell and in no other, and no
\* place has two tiles (NavMesh.AddTile, RemoveTile).
THEOREM MeshSlots == Spec => []SlotsExact
<1>1. SlotInv => SlotsExact
  BY DEF SlotInv
<1> QED
  BY SlotsInit, SlotsStep, <1>1, PTL DEF Spec

----------------------------------------------------------------------------
(* References *)

\* Salts do not come round within the model's bound, and clients restore no
\* reference but the newest of its slot.
SaltsGrow == SaltBound < SaltMod - 1 /\ AnyLastRef = FALSE

\* No reference is newer than its slot, and all of a free slot's are older.
SaltInv ==
    \A r \in issued : /\ r.salt <= tiles[r.slot].salt
                      /\ r.slot \notin InUse => r.salt < tiles[r.slot].salt

\* The reference under which a tile comes is the newest of its slot.
LEMMA AddSalts ==
    ASSUME SlotInv, SaltInv, SaltsGrow, NEW d \in Data, NEW lastRef \in TileRef \cup {NoRef},
           lastRef # NoRef => Restorable(lastRef), AddTile(d, lastRef)
    PROVE  SaltInv'
<1>1. CASE MeshKept
  BY <1>1 DEF MeshKept, SaltInv, InUse
<1>2. ASSUME NEW i \in TileSlot, NEW ref \in TileRef, Placed(d, lastRef, i, ref) PROVE SaltInv'
  <2> USE DEF Placed
  <2>1. tiles \in [TileSlot -> Tile] /\ issued \in SUBSET TileRef /\ d # NoData
    BY Constants DEF SlotInv, SlotTypes
  <2>2. /\ tiles'[i].salt = ref.salt /\ tiles'[i].data = d
        /\ \A j \in TileSlot : j # i => tiles'[j] = tiles[j]
    BY <1>2, <2>1
  <2>3. ASSUME NEW r \in issued, r.slot = i PROVE r.salt <= ref.salt
    <3>1. CASE lastRef = NoRef
      <4>1. ref.salt = tiles[i].salt
        BY <1>2, <3>1 DEF GetTileRef
      <4>2. r.salt < tiles[i].salt
        BY <1>2, <2>3 DEF SaltInv
      <4>3. r.salt \in Int /\ tiles[i].salt \in Int
        BY <2>1, Constants DEF Tile
      <4> QED
        BY <4>1, <4>2, <4>3
    <3>2. CASE lastRef # NoRef
      BY <1>2, <2>3, <3>2 DEF Restorable, SaltsGrow
    <3> QED
      BY <3>1, <3>2
  <2> SUFFICES ASSUME NEW r \in issued'
               PROVE  /\ r.salt <= tiles'[r.slot].salt
                      /\ r.slot \notin InUse' => r.salt < tiles'[r.slot].salt
    BY DEF SaltInv
  <2>4. r \in issued \/ r = ref
    BY <1>2
  <2>5. r \in TileRef /\ r.slot \in TileSlot /\ r.salt \in Nat
    BY <2>1, <2>4, Constants
  <2>6. CASE r.slot = i
    <3>1. r.slot \in InUse'
      BY <2>1, <2>2, <2>6 DEF InUse
    <3>2. r.salt <= ref.salt
      BY <2>3, <2>4, <2>5, <2>6
    <3> QED
      BY <2>2, <2>6, <3>1, <3>2
  <2>7. CASE r.slot # i
    <3>1. r \in issued
      BY <1>2, <2>4, <2>7
    <3>2. tiles'[r.slot] = tiles[r.slot] /\ (r.slot \in InUse' <=> r.slot \in InUse)
      BY <2>2, <2>5, <2>7 DEF InUse
    <3> QED
      BY <3>1, <3>2 DEF SaltInv
  <2> QED
    BY <2>6, <2>7
<1> QED
  BY <1>1, <1>2, AddEffect

\* The slot of a tile that goes gets a salt that no reference of it has.
LEMMA RemoveSalts ==
    ASSUME SlotInv, SaltInv, SaltsGrow, NEW ref \in TileRef, RemoveTile(ref)
    PROVE  SaltInv' /\ ref.slot \in InUse
<1>1. /\ tiles \in [TileSlot -> Tile] /\ issued \in SUBSET TileRef
      /\ ref \in issued /\ tiles[ref.slot].salt = ref.salt /\ ref.salt <= SaltBound
      /\ issued' = issued /\ ref.slot \in TileSlot
  BY Constants DEF SlotInv, SlotTypes, RemoveTile
<1>2. ref.slot \in InUse
  <2>1. ref.salt \in Nat
    BY Constants
  <2> QED
    BY <1>1, <2>1 DEF SaltInv
<1> DEFINE i == ref.slot
<1>3. tiles' = [tiles EXCEPT ![i] = [salt |-> NextSalt(tiles[i].salt), data |-> NoData]]
  BY <1>1, <1>2 DEF RemoveTile
<1>4. NextSalt(tiles[i].salt) = ref.salt + 1
  <2>1. ref.salt \in 1..(SaltMod - 1) /\ ref.salt + 1 < SaltMod
    BY <1>1, Constants DEF SaltsGrow
  <2>2. ref.salt + 1 \in 0..(SaltMod - 1) /\ SaltMod \in Nat \ {0}
    BY <2>1, Constants
  <2>3. (ref.salt + 1) % SaltMod = ref.salt + 1
    BY <2>2
  <2> QED
    BY <1>1, <2>1, <2>3 DEF NextSalt
<1> HIDE DEF i
<1>5. /\ tiles'[i].salt = ref.salt + 1
      /\ \A j \in TileSlot : j # i => tiles'[j] = tiles[j]
  BY <1>1, <1>3, <1>4 DEF i
<1>6. ASSUME NEW r \in issued
      PROVE  /\ r.salt <= tiles'[r.slot].salt
             /\ r.slot \notin InUse' => r.salt < tiles'[r.slot].salt
  <2>1. r.slot \in TileSlot /\ r.salt \in Nat /\ ref.salt \in Nat
    BY <1>1, Constants
  <2>2. CASE r.slot = i
    <3>1. r.salt <= ref.salt
      BY <1>1, <2>2 DEF SaltInv, i
    <3> QED
      BY <1>5, <2>1, <2>2, <3>1
  <2>3. CASE r.slot # i
    <3>1. tiles'[r.slot] = tiles[r.slot] /\ (r.slot \in InUse' <=> r.slot \in InUse)
      BY <1>5, <2>1, <2>3 DEF InUse
    <3> QED
      BY <3>1 DEF SaltInv
  <2> QED
    BY <2>2, <2>3
<1> QED
  BY <1>1, <1>2, <1>6 DEF SaltInv

\* Every step keeps the references apart.
LEMMA SaltsStep == ASSUME SaltsGrow PROVE SlotInv /\ SaltInv /\ [Next]_vars => SaltInv'
<1>1. ASSUME SaltInv, UNCHANGED vars PROVE SaltInv'
  BY <1>1 DEF vars, SaltInv, InUse
<1>2. NoRef \notin TileRef
  BY Constants
<1> QED
  BY <1>1, <1>2, AddSalts, RemoveSalts DEF Next

\* A reference whose tile was removed is refused, until the client has a tile
\* restored under it, as long as salts do not come round and references are
\* restored in the order a client that undoes its last removal has
\* (NavMesh.RemoveTile, AddTile with lastRef).
THEOREM StaleRefused ==
    ASSUME SaltsGrow
    PROVE  Spec => []StaleRefsRefused
<1>1. Init => SaltInv
  BY DEF Init, SaltInv
<1>2. SlotInv /\ SaltInv /\ [Next]_vars => SaltInv'
  BY SaltsStep
<1>3. SlotInv /\ SaltInv => StaleRefsRefused
  <2> SUFFICES ASSUME SlotInv, SaltInv, NEW r \in issued, tiles[r.slot].salt = r.salt
               PROVE  r.slot \in InUse
    BY DEF StaleRefsRefused
  <2>1. r.salt \in Nat
    BY Constants DEF SlotInv, SlotTypes
  <2> QED
    BY <2>1 DEF SaltInv
<1> QED
  BY SlotsInit, SlotsStep, <1>1, <1>2, <1>3, PTL DEF Spec

\* The program does not panic: no reference matches a slot without a tile, if
\* besides no data has off-mesh connections (NavMesh.RemoveTile, AddTile).
THEOREM NoPanic ==
    ASSUME SaltsGrow, OffMesh = {}
    PROVE  Spec => []~panicked
<1>1. Init => SaltInv /\ ~panicked
  BY DEF Init, SaltInv
<1>2. SlotInv /\ SaltInv /\ [Next]_vars => SaltInv'
  BY SaltsStep
<1>3. ASSUME SlotInv, SaltInv, ~panicked, [Next]_vars PROVE ~panicked'
  <2>1. CASE UNCHANGED vars
    BY <1>3, <2>1 DEF vars
  <2>2. ASSUME NEW d \in Data, NEW lastRef \in TileRef \cup {NoRef}, AddTile(d, lastRef)
        PROVE  ~panicked'
    <3>1. \E i \in TileSlot, ref \in TileRef : Placed(d, lastRef, i, ref)
      BY <1>3, <2>2, AddEffect
    <3> QED
      BY <1>3, <3>1 DEF Placed
  <2>3. ASSUME NEW ref \in TileRef, RemoveTile(ref) PROVE ~panicked'
    <3>1. ref.slot \in InUse
      BY <1>3, <2>3, RemoveSalts
    <3> QED
      BY <1>3, <2>3, <3>1 DEF RemoveTile
  <2> QED
    BY <1>3, <2>1, <2>2, <2>3 DEF Next
<1> QED
  BY SlotsInit, SlotsStep, <1>1, <1>2, <1>3, PTL DEF Spec

----------------------------------------------------------------------------
(* The links that a set of tiles asks for *)

\* A tile's inner links lead from it to itself, and across no portal.
LEMMA InnerLinkEnds ==
    ASSUME NEW at, NEW d, NEW l \in InnerLinks(at, d)
    PROVE  l.at = at /\ l.to = at /\ l.via = {}
  BY DEF InnerLinks

\* A link across a portal leads from one tile to the other, which lies on a
\* side of it.
LEMMA ExtLinkEnds ==
    ASSUME NEW at, NEW d, NEW to, NEW e, NEW l \in ExtLinks(at, d, to, e)
    PROVE  l.at = at /\ l.to = to /\ l.via # {} /\ Sides(d, e) # {}
<1>1. PICK p \in {r \in Portals[d] : r.side \in Sides(d, e)} :
         l \in {[at |-> at, poly |-> p.poly, via |-> {p}, to |-> to, toPoly |-> q] :
                    q \in findConnectingPolys(p, e)}
  BY DEF ExtLinks
<1>2. PICK q : l = [at |-> at, poly |-> p.poly, via |-> {p}, to |-> to, toPoly |-> q]
  BY <1>1
<1> QED
  BY <1>1, <1>2

\* Tiles that lie on a side of each other are in cells next to each other.
LEMMA SidesMeet ==
    ASSUME NEW d \in Data, NEW e \in Data, Sides(d, e) # {}
    PROVE  CellOf[e] \in CellsAround(CellOf[d]) /\ CellOf[d] \in CellsAround(CellOf[e])
<1>1. CellOf[d] \in Int \X Int /\ CellOf[e] \in Int \X Int
  BY Constants
<1>2. CASE CellOf[d] = CellOf[e]
  BY <1>2 DEF CellsAround
<1>3. CASE CellOf[d] # CellOf[e]
  <2>1. PICK s \in PortalSide : CellOf[e] = Beside(CellOf[d], s)
    BY <1>3 DEF Sides
  <2>2. PICK x \in Int, y \in Int : CellOf[d] = <<x, y>>
    BY <1>1
  <2>3. CellOf[d] = Beside(CellOf[e], OppositeTile(s))
        /\ OppositeTile(s) \in PortalSide
    <3>1. CASE s = 0
      BY <2>1, <2>2, <3>1 DEF Beside, OppositeTile, PortalSide
    <3>2. CASE s = 2
      BY <2>1, <2>2, <3>2 DEF Beside, OppositeTile, PortalSide
    <3>3. CASE s = 4
      BY <2>1, <2>2, <3>3 DEF Beside, OppositeTile, PortalSide
    <3>4. CASE s = 6
      BY <2>1, <2>2, <3>4 DEF Beside, OppositeTile, PortalSide
    <3> QED
      BY <3>1, <3>2, <3>3, <3>4 DEF PortalSide
  <2> QED
    BY <2>1, <2>3 DEF CellsAround
<1> QED
  BY <1>2, <1>3

\* A link is in the graph if a tile or a pair of tiles asks for it.
LEMMA GraphLinks ==
    ASSUME NEW S, NEW l
    PROVE  l \in Graph(S) <=>
              \/ \E t \in S : l \in InnerLinks(t.ref, t.data)
              \/ \E t, u \in S : t # u /\ l \in ExtLinks(t.ref, t.data, u.ref, u.data)
<1> DEFINE Pairs == {v \in S \X S : v[1] # v[2]}
           Between(v) == ExtLinks(v[1].ref, v[1].data, v[2].ref, v[2].data)
           Inside(t) == InnerLinks(t.ref, t.data)
           InsideAll == UNION {Inside(t) : t \in S}
           BetweenAll == UNION {Between(v) : v \in Pairs}
<1>1. Graph(S) = InsideAll \cup BetweenAll
  BY DEF Graph
<1>2. ASSUME NEW t \in S, NEW u \in S, t # u PROVE <<t, u>> \in Pairs
                                                   /\ Between(<<t, u>>) = ExtLinks(t.ref, t.data, u.ref, u.data)
  BY <1>2
<1>3. \A v \in Pairs : v[1] \in S /\ v[2] \in S /\ v[1] # v[2]
  OBVIOUS
<1> HIDE DEF Pairs
<1>4. (\E v \in Pairs : l \in Between(v)) <=>
      \E t, u \in S : t # u /\ l \in ExtLinks(t.ref, t.data, u.ref, u.data)
  <2>1. ASSUME NEW v \in Pairs, l \in Between(v)
        PROVE  \E t, u \in S : t # u /\ l \in ExtLinks(t.ref, t.data, u.ref, u.data)
    BY <1>3, <2>1
  <2> HIDE DEF Between
  <2>2. ASSUME NEW t \in S, NEW u \in S, t # u, l \in ExtLinks(t.ref, t.data, u.ref, u.data)
        PROVE  \E v \in Pairs : l \in Between(v)
    <3>1. <<t, u>> \in Pairs /\ l \in Between(<<t, u>>)
      BY <1>2, <2>2
    <3> QED
      BY <3>1
  <2> QED
    BY <2>1, <2>2
<1> HIDE DEF Between, Inside
<1>5. l \in InsideAll <=> \E t \in S : l \in Inside(t)
  OBVIOUS
<1>6. l \in BetweenAll <=> \E v \in Pairs : l \in Between(v)
  OBVIOUS
<1> HIDE DEF InsideAll, BetweenAll
<1>7. l \in Graph(S) <=> (\E t \in S : l \in Inside(t)) \/ (\E v \in Pairs : l \in Between(v))
  BY <1>1, <1>5, <1>6
<1> QED
  BY <1>4, <1>7 DEF Inside

\* One tile more brings its own links and those it and the others ask for
\* between them.
LEMMA GraphGrows ==
    ASSUME NEW S, NEW t, t \notin S, NEW l
    PROVE  l \in Graph(S \cup {t}) <=>
              \/ l \in Graph(S)
              \/ l \in InnerLinks(t.ref, t.data)
              \/ \E u \in S : \/ l \in ExtLinks(t.ref, t.data, u.ref, u.data)
                              \/ l \in ExtLinks(u.ref, u.data, t.ref, t.data)
<1> DEFINE Inside(u) == l \in InnerLinks(u.ref, u.data)
           Between(u, v) == l \in ExtLinks(u.ref, u.data, v.ref, v.data)
<1>1. l \in Graph(S) <=> (\E u \in S : Inside(u)) \/ \E u, v \in S : u # v /\ Between(u, v)
  BY GraphLinks
<1>2. l \in Graph(S \cup {t}) <=>
         (\E u \in S \cup {t} : Inside(u)) \/ \E u, v \in S \cup {t} : u # v /\ Between(u, v)
  BY GraphLinks
<1> SUFFICES l \in Graph(S \cup {t}) <=>
                \/ l \in Graph(S)
                \/ Inside(t)
                \/ \E u \in S : Between(t, u) \/ Between(u, t)
  OBVIOUS
<1> HIDE DEF Inside, Between
<1>3. (\E u \in S \cup {t} : Inside(u)) <=> (\E u \in S : Inside(u)) \/ Inside(t)
  OBVIOUS
<1>4. (\E u, v \in S \cup {t} : u # v /\ Between(u, v)) <=>
         (\E u, v \in S : u # v /\ Between(u, v)) \/ \E u \in S : Between(t, u) \/ Between(u, t)
  OBVIOUS
<1> QED
  BY <1>1, <1>2, <1>3, <1>4

\* A link of the graph leads from a tile of the set to a tile of the set.
LEMMA GraphEnds ==
    ASSUME NEW S, NEW l \in Graph(S)
    PROVE  \E t, u \in S : l.at = t.ref /\ l.to = u.ref
<1>1. CASE \E t \in S : l \in InnerLinks(t.ref, t.data)
  <2>1. PICK t \in S : l \in InnerLinks(t.ref, t.data)
    BY <1>1
  <2>2. l.at = t.ref /\ l.to = t.ref
    BY <2>1, InnerLinkEnds
  <2> QED
    BY <2>2
<1>2. CASE \E t, u \in S : t # u /\ l \in ExtLinks(t.ref, t.data, u.ref, u.data)
  <2>1. PICK t \in S, u \in S : l \in ExtLinks(t.ref, t.data, u.ref, u.data)
    BY <1>2
  <2>2. l.at = t.ref /\ l.to = u.ref
    BY <2>1, ExtLinkEnds
  <2> QED
    BY <2>2
<1> QED
  BY <1>1, <1>2, GraphLinks

\* One tile less takes the links that lead from it or to it.
LEMMA GraphShrinks ==
    ASSUME NEW S, NEW t \in S, \A u \in S : u.ref = t.ref => u = t, NEW l
    PROVE  l \in Graph(S \ {t}) <=> l \in Graph(S) /\ l.at # t.ref /\ l.to # t.ref
<1> DEFINE R == S \ {t}
<1>1. /\ R \cup {t} = S /\ t \notin R
      /\ \A u \in R : u.ref # t.ref
  OBVIOUS
<1> HIDE DEF R
<1>2. l \in Graph(S) <=>
         \/ l \in Graph(R)
         \/ l \in InnerLinks(t.ref, t.data)
         \/ \E u \in R : \/ l \in ExtLinks(t.ref, t.data, u.ref, u.data)
                         \/ l \in ExtLinks(u.ref, u.data, t.ref, t.data)
  BY <1>1, GraphGrows
<1>3. l \in Graph(R) => l.at # t.ref /\ l.to # t.ref
  BY <1>1, GraphEnds
<1>4. l \in InnerLinks(t.ref, t.data) => l.at = t.ref
  BY InnerLinkEnds
<1>5. ASSUME NEW u \in R,
             \/ l \in ExtLinks(t.ref, t.data, u.ref, u.data)
             \/ l \in ExtLinks(u.ref, u.data, t.ref, t.data)
      PROVE  l.at = t.ref \/ l.to = t.ref
  BY <1>5, ExtLinkEnds
<1> QED
  BY <1>2, <1>3, <1>4, <1>5 DEF R

----------------------------------------------------------------------------
(* The tiles of the mesh and their links *)

\* The tiles present after one has come.
LEMMA PresentGrows ==
    ASSUME SlotInv, NEW d \in Data, NEW lastRef, NEW i \in TileSlot, NEW ref \in TileRef,
           Placed(d, lastRef, i, ref)
    PROVE  /\ Present' = Present \cup {[ref |-> ref, data |-> d]}
           /\ \A u \in Present : u.ref.slot # i
           /\ InUse' = InUse \cup {i}
           /\ \A j \in InUse : tiles'[j] = tiles[j]
           /\ tiles'[i].data = d
<1> USE DEF Placed
<1>1. tiles \in [TileSlot -> Tile] /\ d # NoData
  BY Constants DEF SlotInv, SlotTypes
<1>2. /\ tiles'[i].salt = ref.salt /\ tiles'[i].data = d
      /\ \A j \in TileSlot : j # i => tiles'[j] = tiles[j]
  BY <1>1
<1>3. InUse' = InUse \cup {i} /\ \A j \in InUse : j \in TileSlot /\ j # i /\ tiles'[j] = tiles[j]
  BY <1>1, <1>2 DEF InUse
<1>4. [slot |-> i, salt |-> ref.salt] = ref
  BY Constants
<1>5. Present' = {[ref |-> [slot |-> j, salt |-> tiles'[j].salt], data |-> tiles'[j].data] : j \in InUse'}
  BY DEF Present, GetTileRef
<1>6. Present = {[ref |-> [slot |-> j, salt |-> tiles[j].salt], data |-> tiles[j].data] : j \in InUse}
  BY DEF Present, GetTileRef
<1>7. Present' = Present \cup {[ref |-> ref, data |-> d]}
  <2>1. ASSUME NEW j \in InUse'
        PROVE  [ref |-> [slot |-> j, salt |-> tiles'[j].salt], data |-> tiles'[j].data]
                  \in Present \cup {[ref |-> ref, data |-> d]}
    <3>1. CASE j = i
      BY <1>2, <1>4, <3>1
    <3>2. CASE j \in InUse
      BY <1>3, <1>6, <3>2
    <3> QED
      BY <1>3, <3>1, <3>2
  <2>2. ASSUME NEW j \in InUse
        PROVE  [ref |-> [slot |-> j, salt |-> tiles[j].salt], data |-> tiles[j].data] \in Present'
    <3>1. j \in InUse' /\ tiles'[j] = tiles[j]
      BY <1>3
    <3> QED
      BY <1>5, <3>1
  <2>3. [ref |-> ref, data |-> d] \in Present'
    <3>1. i \in InUse' /\ [ref |-> [slot |-> i, salt |-> tiles'[i].salt], data |-> tiles'[i].data]
                              = [ref |-> ref, data |-> d]
      BY <1>2, <1>3, <1>4
    <3> QED
      BY <1>5, <3>1
  <2>4. \A u \in Present' : u \in Present \cup {[ref |-> ref, data |-> d]}
    BY <1>5, <2>1
  <2>5. \A u \in Present : u \in Present'
    BY <1>6, <2>2
  <2> QED
    BY <2>3, <2>4, <2>5
<1>8. \A u \in Present : u.ref.slot # i
  BY <1>3, <1>6
<1> QED
  BY <1>2, <1>3, <1>7, <1>8

\* A tile is present under its slot's reference, and no other is.
LEMMA PresentTiles ==
    /\ \A j \in InUse : [ref |-> GetTileRef(j), data |-> tiles[j].data] \in Present
    /\ \A u \in Present : /\ u.ref.slot \in InUse
                          /\ u.ref = GetTileRef(u.ref.slot) /\ u.data = tiles[u.ref.slot].data
    /\ \A u, v \in Present : u.ref.slot = v.ref.slot => u = v
<1>1. \A u \in Present : \E j \in InUse :
         u = [ref |-> [slot |-> j, salt |-> tiles[j].salt], data |-> tiles[j].data]
  BY DEF Present, GetTileRef
<1> QED
  BY <1>1 DEF Present, GetTileRef

\* The tiles present after one has gone.
LEMMA PresentShrinks ==
    ASSUME SlotInv, NEW ref \in TileRef, RemoveTile(ref), ref.slot \in InUse
    PROVE  \E t \in Present :
              /\ t.ref = ref
              /\ Present' = Present \ {t}
              /\ InUse' = InUse \ {ref.slot}
              /\ \A j \in InUse' : tiles'[j] = tiles[j]
<1> DEFINE i == ref.slot
           t == [ref |-> GetTileRef(i), data |-> tiles[i].data]
<1>1. tiles \in [TileSlot -> Tile] /\ i \in TileSlot /\ ref.salt = tiles[i].salt
  BY Constants DEF SlotInv, SlotTypes, RemoveTile
<1>2. tiles' = [tiles EXCEPT ![i] = [salt |-> NextSalt(tiles[i].salt), data |-> NoData]]
  BY <1>1 DEF RemoveTile
<1>3. GetTileRef(i) = ref
  BY <1>1, Constants DEF GetTileRef
<1>4. t \in Present /\ t.ref = ref
  BY <1>3 DEF Present
<1> HIDE DEF i
<1>5. tiles'[i].data = NoData /\ \A j \in TileSlot : j # i => tiles'[j] = tiles[j]
  BY <1>1, <1>2
<1>6. InUse' = InUse \ {i} /\ \A j \in InUse' : j \in InUse /\ j # i /\ tiles'[j] = tiles[j]
  BY <1>5 DEF InUse
<1>7. Present' = {[ref |-> [slot |-> j, salt |-> tiles'[j].salt], data |-> tiles'[j].data] : j \in InUse'}
  BY DEF Present, GetTileRef
<1>8. Present = {[ref |-> [slot |-> j, salt |-> tiles[j].salt], data |-> tiles[j].data] : j \in InUse}
  BY DEF Present, GetTileRef
<1>9. t = [ref |-> [slot |-> i, salt |-> tiles[i].salt], data |-> tiles[i].data]
  BY DEF GetTileRef
<1> HIDE DEF t
<1>10. ASSUME NEW j \in InUse'
       PROVE  [ref |-> [slot |-> j, salt |-> tiles'[j].salt], data |-> tiles'[j].data] \in Present \ {t}
  BY <1>6, <1>8, <1>9
<1>11. ASSUME NEW j \in InUse, j # i
       PROVE  [ref |-> [slot |-> j, salt |-> tiles[j].salt], data |-> tiles[j].data] \in Present'
  <2>1. j \in InUse' /\ tiles'[j] = tiles[j]
    BY <1>6, <1>11
  <2> QED
    BY <1>7, <2>1
<1>12. Present' = Present \ {t}
  <2>1. \A u \in Present' : u \in Present \ {t}
    BY <1>7, <1>10
  <2>2. \A u \in Present \ {t} : u \in Present'
    <3>1. ASSUME NEW j \in InUse,
                 [ref |-> [slot |-> j, salt |-> tiles[j].salt], data |-> tiles[j].data] # t
          PROVE  j # i
      BY <1>9, <3>1
    <3> QED
      BY <1>8, <1>11, <3>1
  <2> QED
    BY <2>1, <2>2
<1> QED
  BY <1>4, <1>6, <1>12 DEF i

\* The neighbours of a cell are the slots in use there and around.
LEMMA NeighbourSlots ==
    ASSUME SlotInv, NEW c
    PROVE  Neighbours(c) = {j \in InUse : CellOf[tiles[j].data] \in CellsAround(c)}
<1>1. \A k \in DOMAIN Hash : Chained(k) = {j \in InUse : CellOf[tiles[j].data] = k}
  BY Chains
<1>2. \A j \in InUse : CellOf[tiles[j].data] \in DOMAIN Hash
  BY Constants DEF SlotInv, SlotTypes, Tile, InUse
<1> QED
  BY <1>1, <1>2 DEF Neighbours

\* The links a new tile has made are those it and the tiles present ask for:
\* it looks around its own cell, and no tile further away meets it.
LEMMA WantedLinks ==
    ASSUME SlotInv, NEW d \in Data, NEW ref, NEW l
    PROVE  l \in Wanted(ref, d) <=>
              \E u \in Present : \/ l \in ExtLinks(ref, d, u.ref, u.data)
                                 \/ l \in ExtLinks(u.ref, u.data, ref, d)
<1> DEFINE Asked(r, e) == l \in ExtLinks(ref, d, r, e) \/ l \in ExtLinks(r, e, ref, d)
           near == Neighbours(CellOf[d])
<1>1. l \in Wanted(ref, d) <=> \E j \in near : Asked(GetTileRef(j), tiles[j].data)
  BY DEF Wanted
<1>2. ASSUME NEW j \in InUse, Asked(GetTileRef(j), tiles[j].data) PROVE j \in near
  <2>1. tiles[j].data \in Data
    BY DEF SlotInv, SlotTypes, Tile, InUse
  <2>2. Sides(d, tiles[j].data) # {} \/ Sides(tiles[j].data, d) # {}
    BY <1>2, ExtLinkEnds
  <2>3. CellOf[tiles[j].data] \in CellsAround(CellOf[d])
    BY <2>1, <2>2, SidesMeet
  <2> QED
    BY <2>3, NeighbourSlots
<1>3. near \subseteq InUse
  BY NeighbourSlots
<1> SUFFICES l \in Wanted(ref, d) <=> \E u \in Present : Asked(u.ref, u.data)
  OBVIOUS
<1> HIDE DEF Asked, near
<1>4. (\E j \in near : Asked(GetTileRef(j), tiles[j].data)) => \E u \in Present : Asked(u.ref, u.data)
  <2> SUFFICES ASSUME NEW j \in near, Asked(GetTileRef(j), tiles[j].data)
               PROVE  \E u \in Present : Asked(u.ref, u.data)
    OBVIOUS
  <2>1. PICK u : u = [ref |-> GetTileRef(j), data |-> tiles[j].data]
    OBVIOUS
  <2>2. u \in Present /\ u.ref = GetTileRef(j) /\ u.data = tiles[j].data
    BY <1>3, <2>1, PresentTiles
  <2> QED
    BY <2>2
<1>5. (\E u \in Present : Asked(u.ref, u.data)) => \E j \in near : Asked(GetTileRef(j), tiles[j].data)
  <2> SUFFICES ASSUME NEW u \in Present, Asked(u.ref, u.data)
               PROVE  \E j \in near : Asked(GetTileRef(j), tiles[j].data)
    OBVIOUS
  <2>1. PICK j \in InUse : u.ref = GetTileRef(j) /\ u.data = tiles[j].data
    BY PresentTiles
  <2> QED
    BY <1>2, <2>1
<1> QED
  BY <1>1, <1>4, <1>5

\* The links made and those refused are the ones the tiles present ask for.
GraphInv == links \cup missing = Graph(Present)

\* A tile that comes brings the links it asks for, and those asked of it.
LEMMA AddGraph ==
    ASSUME SlotInv, GraphInv, NEW d \in Data, NEW lastRef \in TileRef \cup {NoRef},
           AddTile(d, lastRef)
    PROVE  GraphInv'
<1>1. CASE MeshKept
  BY <1>1 DEF MeshKept, GraphInv, Present, InUse, GetTileRef
<1>2. ASSUME NEW i \in TileSlot, NEW ref \in TileRef,
             Placed(d, lastRef, i, ref), Linked(d, i, ref)
      PROVE  GraphInv'
  <2> DEFINE t == [ref |-> ref, data |-> d]
             inner == InnerLinks(ref, d)
             wanted == Wanted(ref, d)
  <2>1. PICK lost \in Lost(wanted, Room(d, i, ref)) :
           /\ links' = links \cup inner \cup (wanted \ lost)
           /\ missing' = missing \cup lost
    BY <1>2 DEF Linked
  <2>2. lost \subseteq wanted
    BY DEF Lost
  <2>3. Present' = Present \cup {t} /\ t \notin Present
    <3>1. ref.slot = i
      BY <1>2 DEF Placed
    <3> QED
      BY <1>2, <3>1, PresentGrows
  <2>4. ASSUME NEW l
        PROVE  l \in Graph(Present \cup {t}) <=>
                  \/ l \in Graph(Present)
                  \/ l \in inner
                  \/ l \in wanted
    <3>1. l \in wanted <=>
              \E u \in Present : \/ l \in ExtLinks(ref, d, u.ref, u.data)
                                 \/ l \in ExtLinks(u.ref, u.data, ref, d)
      BY WantedLinks
    <3> QED
      BY <2>3, <3>1, GraphGrows
  <2> HIDE DEF t, inner, wanted
  <2>5. links' \cup missing' = Graph(Present) \cup inner \cup wanted
    BY <2>1, <2>2 DEF GraphInv
  <2>6. Graph(Present \cup {t}) = Graph(Present) \cup inner \cup wanted
    <3>1. \A l : l \in Graph(Present \cup {t}) <=> l \in Graph(Present) \cup inner \cup wanted
      BY <2>4
    <3> QED
      BY <3>1
  <2>7. Graph(Present)' = Graph(Present \cup {t})
    BY <2>3
  <2> QED
    BY <2>5, <2>6, <2>7 DEF GraphInv
<1> QED
  BY <1>1, <1>2, AddEffect

\* Two tiles joined by a link are neighbours, so RemoveTile finds the links
\* that lead to the tile it removes.
LEMMA SeveredLinks ==
    ASSUME SlotInv, GraphInv, NEW t \in Present,
           NEW l \in links, l.to.slot = t.ref.slot, l.at.slot # t.ref.slot
    PROVE  l \in Severed(t.ref.slot)
<1> DEFINE i == t.ref.slot
<1>1. l \in Graph(Present)
  BY DEF GraphInv
<1>2. ~ \E u \in Present : l \in InnerLinks(u.ref, u.data)
  BY InnerLinkEnds
<1>3. PICK u \in Present, v \in Present : l \in ExtLinks(u.ref, u.data, v.ref, v.data)
  BY <1>1, <1>2, GraphLinks
<1>4. l.at = u.ref /\ l.to = v.ref /\ Sides(u.data, v.data) # {}
  BY <1>3, ExtLinkEnds
<1>5. v = t
  BY <1>4, PresentTiles
<1>6. u.ref.slot \in InUse /\ u.data = tiles[u.ref.slot].data /\ t.data = tiles[i].data
      /\ i \in InUse
  BY PresentTiles
<1>7. u.data \in Data /\ t.data \in Data
  BY <1>6 DEF SlotInv, SlotTypes, Tile, InUse
<1>8. CellOf[u.data] \in CellsAround(CellOf[t.data])
  BY <1>4, <1>5, <1>7, SidesMeet
<1>9. u.ref.slot \in Neighbours(CellOf[tiles[i].data])
  BY <1>6, <1>8, NeighbourSlots
<1>10. l.at.slot \in Neighbours(CellOf[tiles[i].data]) \ {i} /\ l.to.slot = i
  BY <1>4, <1>9
<1> QED
  BY <1>10 DEF Severed

\* What a removal leaves of the links, made or refused.
LEMMA LeftLinks ==
    ASSUME SlotInv, GraphInv, NEW t \in Present, RemoveTile(t.ref)
    PROVE  /\ links' = {l \in links : l.at # t.ref /\ l.to # t.ref}
           /\ missing' = {l \in missing : l.at # t.ref /\ l.to # t.ref}
<1> DEFINE i == t.ref.slot
<1>1. i \in InUse
  BY PresentTiles
<1>2. /\ links' = {l \in links \ Severed(i) : l.at.slot # i}
      /\ missing' = {l \in missing : i \notin {l.at.slot, l.to.slot}}
  BY <1>1 DEF RemoveTile
<1>3. ASSUME NEW l \in links \cup missing
      PROVE  (l.at.slot = i <=> l.at = t.ref) /\ (l.to.slot = i <=> l.to = t.ref)
  <2>1. PICK u \in Present, v \in Present : l.at = u.ref /\ l.to = v.ref
    <3>1. l \in Graph(Present)
      BY DEF GraphInv
    <3> QED
      BY <3>1, GraphEnds
  <2> QED
    BY <2>1, PresentTiles
<1>4. \A l \in links : l \in Severed(i) => l.to.slot = i
  BY DEF Severed
<1>5. \A l \in links : l.to.slot = i /\ l.at.slot # i => l \in Severed(i)
  BY SeveredLinks
<1> HIDE DEF i
<1>6. ASSUME NEW l \in links PROVE l \in links' <=> l.at # t.ref /\ l.to # t.ref
  BY <1>2, <1>3, <1>4, <1>5
<1>7. ASSUME NEW l \in missing PROVE l \in missing' <=> l.at # t.ref /\ l.to # t.ref
  BY <1>2, <1>3
<1>8. links' \subseteq links /\ missing' \subseteq missing
  BY <1>2
<1> QED
  BY <1>6, <1>7, <1>8

\* A tile that goes takes its links along, and those that lead to it.
LEMMA RemoveGraph ==
    ASSUME SlotInv, GraphInv, NEW ref \in TileRef, RemoveTile(ref)
    PROVE  GraphInv'
<1>1. CASE ref.slot \notin InUse
  BY <1>1 DEF RemoveTile, GraphInv, Present, InUse, GetTileRef
<1>2. CASE ref.slot \in InUse
  <2>1. PICK t \in Present : t.ref = ref /\ Present' = Present \ {t}
    BY <1>2, PresentShrinks
  <2>2. /\ links' = {l \in links : l.at # t.ref /\ l.to # t.ref}
        /\ missing' = {l \in missing : l.at # t.ref /\ l.to # t.ref}
    BY <2>1, LeftLinks
  <2>3. \A u \in Present : u.ref = t.ref => u = t
    BY PresentTiles
  <2>4. \A l : l \in Graph(Present \ {t}) <=> l \in Graph(Present) /\ l.at # t.ref /\ l.to # t.ref
    BY <2>3, GraphShrinks
  <2>5. \A l : l \in links' \cup missing' <=> l \in Graph(Present \ {t})
    BY <2>2, <2>4 DEF GraphInv
  <2>6. links' \cup missing' = Graph(Present \ {t})
    BY <2>5
  <2>7. Graph(Present)' = Graph(Present \ {t})
    BY <2>1
  <2> QED
    BY <2>6, <2>7 DEF GraphInv
<1> QED
  BY <1>1, <1>2

\* The graph of an empty mesh is empty.
LEMMA GraphInit == Init => GraphInv
<1> SUFFICES ASSUME Init PROVE GraphInv
  OBVIOUS
<1>1. Present = {}
  BY DEF Init, Present, InUse
<1>2. \A l : l \notin Graph({})
  BY GraphLinks
<1> QED
  BY <1>1, <1>2 DEF Init, GraphInv

\* Every step keeps the links to what the tiles present ask for.
LEMMA GraphStep == SlotInv /\ GraphInv /\ [Next]_vars => GraphInv'
<1>1. ASSUME GraphInv, UNCHANGED vars PROVE GraphInv'
  BY <1>1 DEF vars, GraphInv, Present, InUse, GetTileRef
<1> QED
  BY <1>1, AddGraph, RemoveGraph DEF Next

----------------------------------------------------------------------------
(* The mesh as a directory *)

\* The directory counts as the mesh does.
LEMMA SameCount == \A S : Directory!Cardinality(S) = Cardinality(S)
  BY DEF Directory!Cardinality, Cardinality

\* The directory asks for the same links.
LEMMA SameGraph == ASSUME NEW S PROVE Directory!Graph(S) = Graph(S)
<1>1. \A d, e : Directory!Sides(d, e) = Sides(d, e)
  BY DEF Directory!Sides, Sides, Directory!PortalSide, PortalSide, Directory!Beside, Beside
<1>2. \A p, e : Directory!findConnectingPolys(p, e) = findConnectingPolys(p, e)
  BY SameCount DEF Directory!findConnectingPolys, findConnectingPolys, Directory!Meeting, Meeting,
     Directory!OppositeTile, OppositeTile
<1>3. \A at, d, to, e : Directory!ExtLinks(at, d, to, e) = ExtLinks(at, d, to, e)
  BY <1>1, <1>2 DEF Directory!ExtLinks, ExtLinks
<1>4. \A at, d : Directory!InnerLinks(at, d) = InnerLinks(at, d)
  BY DEF Directory!InnerLinks, InnerLinks
<1> QED
  BY <1>3, <1>4 DEF Directory!Graph, Graph

\* The directory has the same places.
LEMMA SameLoc == ASSUME NEW d PROVE Directory!LocOf(d) = LocOf(d)
  BY DEF Directory!LocOf, LocOf

\* While a slot is free there are fewer tiles than slots.
LEMMA CapacityLeft ==
    ASSUME SlotInv, NEW i \in TileSlot, i \notin InUse
    PROVE  Cardinality(Present) < MaxTiles
<1>1. IsFiniteSet(TileSlot) /\ Cardinality(TileSlot) = MaxTiles /\ MaxTiles \in Nat
  BY Constants, FS_Interval DEF TileSlot
<1>2. IsFiniteSet(TileSlot \ {i}) /\ Cardinality(TileSlot \ {i}) = MaxTiles - 1
  BY <1>1, FS_RemoveElement
<1> DEFINE f == [u \in Present |-> u.ref.slot]
<1>3. f \in [Present -> TileSlot \ {i}]
  BY PresentTiles DEF InUse
<1>4. f \in Injection(Present, TileSlot \ {i})
  BY <1>3, PresentTiles DEF Injection, IsInjective
<1>5. IsFiniteSet(Present) /\ Cardinality(Present) <= MaxTiles - 1
  BY <1>2, <1>4, FS_Injection
<1>6. Cardinality(Present) \in Nat
  BY <1>5, FS_CardinalityType
<1> QED
  BY <1>1, <1>5, <1>6

\* What a step leaves alone stutters.
LEMMA KeptStutters ==
    ASSUME UNCHANGED <<tiles, links, missing, issued>>
    PROVE  UNCHANGED <<Present, issued, links \cup missing>>
  BY DEF Present, InUse, GetTileRef

\* AddTile gives out a new reference, or restores one that no tile has.
LEMMA AddMaps ==
    ASSUME SlotInv, SaltInv, GraphInv, SaltsGrow,
           NEW d \in Data, NEW lastRef \in TileRef \cup {NoRef},
           lastRef # NoRef => Restorable(lastRef), AddTile(d, lastRef)
    PROVE  Directory!Next \/ UNCHANGED <<Present, issued, links \cup missing>>
<1>1. CASE MeshKept
  BY <1>1, KeptStutters DEF MeshKept
<1>2. ASSUME NEW i \in TileSlot, NEW ref \in TileRef,
             Placed(d, lastRef, i, ref), Linked(d, i, ref)
      PROVE  Directory!Next
  <2>1. /\ i \notin InUse /\ ref.slot = i
        /\ ref = IF lastRef = NoRef THEN GetTileRef(i) ELSE lastRef
        /\ \A j \in InUse : LocOf(tiles[j].data) # LocOf(d)
        /\ issued' = issued \cup {ref}
    BY <1>2 DEF Placed
  <2>2. /\ Present' = Present \cup {[ref |-> ref, data |-> d]}
        /\ \A u \in Present : u.ref.slot # i
    BY <1>2, PresentGrows
  <2>3. (links \cup missing)' = Directory!Graph(Present')
    <3>1. GraphInv'
      BY AddGraph
    <3>2. links' \cup missing' = Graph(Present')
      BY <3>1 DEF GraphInv
    <3> QED
      BY <3>2, SameGraph
  <2>4. \A u \in Present : Directory!LocOf(u.data) # Directory!LocOf(d)
    BY <2>1, PresentTiles, SameLoc
  <2>5. Directory!Cardinality(Present) < MaxTiles
    BY <2>1, CapacityLeft, SameCount
  <2>6. Directory!Place(ref, d)
    BY <2>1, <2>2, <2>3, <2>4, <2>5 DEF Directory!Place
  <2>7. CASE lastRef = NoRef
    <3>1. ref \notin issued
      <4>1. ref.salt = tiles[i].salt /\ ref.salt \in Int
        BY <2>1, <2>7, Constants DEF GetTileRef
      <4> QED
        BY <2>1, <4>1 DEF SaltInv
    <3>2. Directory!Add(ref, d)
      BY <2>6, <3>1 DEF Directory!Add
    <3> QED
      BY <3>2 DEF Directory!Next
  <2>8. CASE lastRef # NoRef
    <3>1. ref \in issued /\ \A u \in Present : u.ref # ref
      BY <2>1, <2>2, <2>8 DEF Restorable
    <3>2. Directory!Restore(ref, d)
      BY <2>6, <3>1 DEF Directory!Restore
    <3> QED
      BY <3>2 DEF Directory!Next
  <2> QED
    BY <2>7, <2>8
<1> QED
  BY <1>1, <1>2, AddEffect

\* RemoveTile removes the tile of the reference.
LEMMA RemoveMaps ==
    ASSUME SlotInv, SaltInv, GraphInv, SaltsGrow, NEW ref \in TileRef, RemoveTile(ref)
    PROVE  Directory!Next
<1>1. ref.slot \in InUse
  BY RemoveSalts
<1>2. PICK t \in Present : t.ref = ref /\ Present' = Present \ {t}
  BY <1>1, PresentShrinks
<1>3. (links \cup missing)' = Directory!Graph(Present')
  <2>1. GraphInv'
    BY RemoveGraph
  <2>2. links' \cup missing' = Graph(Present')
    BY <2>1 DEF GraphInv
  <2> QED
    BY <2>2, SameGraph
<1>4. issued' = issued
  BY DEF RemoveTile
<1>5. Directory!Remove(t)
  BY <1>2, <1>3, <1>4 DEF Directory!Remove
<1> QED
  BY <1>5 DEF Directory!Next

\* The mesh is the directory that TileDirectory specifies: a reference is given
\* out once and keeps its tile until that is removed, one tile lies at a place,
\* and the links are those that the tiles present ask for, whatever tiles came
\* and went, save those refused for want of room (NavMesh.AddTile, RemoveTile).
THEOREM MeshImplementsDirectory ==
    ASSUME SaltsGrow
    PROVE  Spec => IsDirectory
<1> DEFINE Inv == SlotInv /\ SaltInv /\ GraphInv
<1>1. Init => Inv
  BY SlotsInit, GraphInit DEF Init, SaltInv
<1>2. Inv /\ [Next]_vars => Inv'
  BY SlotsStep, SaltsStep, GraphStep
<1>3. Init => Directory!Init
  <2> SUFFICES ASSUME Init PROVE Directory!Init
    OBVIOUS
  <2>1. Present = {} /\ issued = {} /\ links \cup missing = {}
    BY DEF Init, Present, InUse
  <2> QED
    BY <2>1 DEF Directory!Init
<1>4. Inv /\ [Next]_vars => [Directory!Next]_<<Present, issued, links \cup missing>>
  <2> SUFFICES ASSUME SlotInv, SaltInv, GraphInv, [Next]_vars
               PROVE  Directory!Next \/ UNCHANGED <<Present, issued, links \cup missing>>
    OBVIOUS
  <2>1. NoRef \notin TileRef
    BY Constants
  <2>2. CASE UNCHANGED vars
    BY <2>2, KeptStutters DEF vars
  <2>3. ASSUME NEW d \in Data, AddTile(d, NoRef)
        PROVE  Directory!Next \/ UNCHANGED <<Present, issued, links \cup missing>>
    BY <2>3, AddMaps
  <2>4. ASSUME NEW d \in Data, NEW lastRef \in TileRef, Restorable(lastRef), AddTile(d, lastRef)
        PROVE  Directory!Next \/ UNCHANGED <<Present, issued, links \cup missing>>
    BY <2>4, AddMaps
  <2>5. ASSUME NEW ref \in TileRef, RemoveTile(ref)
        PROVE  Directory!Next
    BY <2>5, RemoveMaps
  <2> QED
    BY <2>2, <2>3, <2>4, <2>5 DEF Next
<1> HIDE DEF Inv
<1> QED
  BY <1>1, <1>2, <1>3, <1>4, PTL DEF Spec, IsDirectory, Directory!Spec

----------------------------------------------------------------------------
(* The pools of links *)

\* The image of a finite set is finite and no larger.
LEMMA FiniteImage ==
    ASSUME NEW S, IsFiniteSet(S), NEW f, DOMAIN f = S, NEW T, T = {f[x] : x \in S}, f \in [S -> T]
    PROVE  /\ IsFiniteSet(T)
           /\ Cardinality(T) <= Cardinality(S)
<1>1. f \in Surjection(S, T)
  BY DEF Surjection
<1> QED
  BY <1>1, FS_Surjection

\* An interval from 1 is finite.
LEMMA FiniteInterval ==
    ASSUME NEW n \in Nat
    PROVE  IsFiniteSet(1..n) /\ Cardinality(1..n) = n
  BY FS_Interval

\* A tile's inner links find room in the pool its data brings along.
LEMMA InnerRoom ==
    ASSUME NEW d \in Data, NEW ref
    PROVE  /\ IsFiniteSet(InnerLinks(ref, d))
           /\ Cardinality(InnerLinks(ref, d)) \in Nat
           /\ Cardinality(InnerLinks(ref, d)) <= MaxLinks[d]
           /\ MaxLinks[d] \in Nat
<1>1. /\ Polys[d] \in Nat /\ Inner[d] \subseteq (1..Polys[d]) \X (1..Polys[d])
      /\ Cardinality(Inner[d]) <= MaxLinks[d] /\ MaxLinks[d] \in Nat
  BY DataAssumption, NavMeshAssumption
<1>2. IsFiniteSet(Inner[d])
  <2>1. IsFiniteSet(1..Polys[d])
    BY <1>1, FiniteInterval
  <2>2. IsFiniteSet((1..Polys[d]) \X (1..Polys[d]))
    BY <2>1, FS_Product
  <2> QED
    BY <1>1, <2>2, FS_Subset
<1> DEFINE f == [e \in Inner[d] |->
                   [at |-> ref, poly |-> e[1], via |-> {}, to |-> ref, toPoly |-> e[2]]]
<1>3. InnerLinks(ref, d) = {f[e] : e \in Inner[d]}
  BY DEF InnerLinks
<1>4. DOMAIN f = Inner[d] /\ f \in [Inner[d] -> {f[e] : e \in Inner[d]}]
  OBVIOUS
<1> HIDE DEF f
<1>5. /\ IsFiniteSet(InnerLinks(ref, d))
      /\ Cardinality(InnerLinks(ref, d)) <= Cardinality(Inner[d])
  BY <1>2, <1>3, <1>4, FiniteImage
<1>6. Cardinality(InnerLinks(ref, d)) \in Nat /\ Cardinality(Inner[d]) \in Nat
  BY <1>2, <1>5, FS_CardinalityType
<1> QED
  BY <1>1, <1>5, <1>6

\* Portals meet finitely many polygons.
LEMMA ExtLinksFinite ==
    ASSUME NEW at, NEW d \in Data, NEW to, NEW e \in Data
    PROVE  IsFiniteSet(ExtLinks(at, d, to, e))
<1>1. /\ IsFiniteSet(Portals[d]) /\ Polys[e] \in Nat
      /\ \A q \in Portals[e] : q.poly \in 1..Polys[e]
  BY DataAssumption
<1>2. \A p : findConnectingPolys(p, e) \subseteq 1..Polys[e]
  BY <1>1 DEF findConnectingPolys, Meeting
<1>3. IsFiniteSet(Portals[d] \X (1..Polys[e]))
  <2>1. IsFiniteSet(1..Polys[e])
    BY <1>1, FiniteInterval
  <2> QED
    BY <1>1, <2>1, FS_Product
<1> DEFINE S == Portals[d] \X (1..Polys[e])
           f == [x \in S |-> [at |-> at, poly |-> x[1].poly, via |-> {x[1]}, to |-> to, toPoly |-> x[2]]]
           T == {f[x] : x \in S}
<1>4. DOMAIN f = S /\ f \in [S -> T]
  OBVIOUS
<1>5. ExtLinks(at, d, to, e) \subseteq T
  <2> SUFFICES ASSUME NEW l \in ExtLinks(at, d, to, e) PROVE l \in T
    OBVIOUS
  <2>1. PICK p \in Portals[d] :
           l \in {[at |-> at, poly |-> p.poly, via |-> {p}, to |-> to, toPoly |-> q] :
                      q \in findConnectingPolys(p, e)}
    BY DEF ExtLinks
  <2>2. PICK q \in findConnectingPolys(p, e) :
           l = [at |-> at, poly |-> p.poly, via |-> {p}, to |-> to, toPoly |-> q]
    BY <2>1
  <2>3. <<p, q>> \in S /\ f[<<p, q>>] = l
    BY <1>2, <2>2
  <2> QED
    BY <2>3
<1> HIDE DEF f
<1>6. IsFiniteSet(T)
  <2> HIDE DEF S
  <2>1. IsFiniteSet(S)
    BY <1>3 DEF S
  <2> QED
    BY <1>4, <2>1, FiniteImage
<1> QED
  BY <1>5, <1>6, FS_Subset

\* A tile has finitely many links made when it comes.
LEMMA WantedFinite ==
    ASSUME SlotInv, NEW ref, NEW d \in Data
    PROVE  IsFiniteSet(Wanted(ref, d))
<1>1. Neighbours(CellOf[d]) \subseteq InUse /\ InUse \subseteq TileSlot
  BY NeighbourSlots DEF InUse
<1>2. IsFiniteSet(Neighbours(CellOf[d]))
  <2>1. MaxTiles \in Nat
    BY Constants
  <2>2. IsFiniteSet(TileSlot)
    BY <2>1, FiniteInterval DEF TileSlot
  <2> QED
    BY <1>1, <2>2, FS_Subset
<1> DEFINE near == Neighbours(CellOf[d])
           f == [j \in near |-> ExtLinks(ref, d, GetTileRef(j), tiles[j].data)
                                \cup ExtLinks(GetTileRef(j), tiles[j].data, ref, d)]
           T == {f[j] : j \in near}
<1>3. ASSUME NEW j \in near PROVE IsFiniteSet(f[j])
  <2>1. tiles[j].data \in Data
    BY <1>1 DEF SlotInv, SlotTypes, Tile, InUse
  <2> QED
    BY <2>1, ExtLinksFinite, FS_Union
<1>4. Wanted(ref, d) = UNION T
  BY DEF Wanted
<1>5. DOMAIN f = near /\ f \in [near -> T]
  OBVIOUS
<1> HIDE DEF near, f
<1>6. \A U \in T : IsFiniteSet(U)
  BY <1>3
<1>7. IsFiniteSet(T)
  BY <1>2, <1>5, FiniteImage DEF near
<1> QED
  BY <1>4, <1>6, <1>7, FS_UNION

\* Two sets without a common link hold together as many as each of them.
LEMMA HeldApart ==
    ASSUME NEW A, NEW B, IsFiniteSet(A), IsFiniteSet(B), NEW i,
           \A l \in A : l \in B => l.at.slot # i
    PROVE  Cardinality(HeldBy(A \cup B, i)) = Cardinality(HeldBy(A, i)) + Cardinality(HeldBy(B, i))
<1>1. /\ HeldBy(A \cup B, i) = HeldBy(A, i) \cup HeldBy(B, i)
      /\ HeldBy(A, i) \cap HeldBy(B, i) = {}
      /\ HeldBy(A, i) \subseteq A /\ HeldBy(B, i) \subseteq B
  BY DEF HeldBy
<1>2. IsFiniteSet(HeldBy(A, i)) /\ IsFiniteSet(HeldBy(B, i))
  BY <1>1, FS_Subset
<1>3. Cardinality(HeldBy(A, i)) \in Nat /\ Cardinality(HeldBy(B, i)) \in Nat
  BY <1>2, FS_CardinalityType
<1>4. Cardinality(HeldBy(A, i) \cup HeldBy(B, i))
         = Cardinality(HeldBy(A, i)) + Cardinality(HeldBy(B, i))
           - Cardinality(HeldBy(A, i) \cap HeldBy(B, i))
  BY <1>2, FS_Union
<1>5. Cardinality(HeldBy(A, i) \cap HeldBy(B, i)) = 0
  BY <1>1, FS_EmptySet
<1>6. Cardinality(HeldBy(A \cup B, i)) = Cardinality(HeldBy(A, i) \cup HeldBy(B, i))
  BY <1>1
<1> QED
  BY <1>3, <1>4, <1>5, <1>6

\* Without some of its links a set holds that many less.
LEMMA HeldLess ==
    ASSUME NEW A, IsFiniteSet(A), NEW B, B \subseteq A, NEW i
    PROVE  /\ Cardinality(HeldBy(A, i)) \in Nat /\ Cardinality(HeldBy(B, i)) \in Nat
           /\ Cardinality(HeldBy(A \ B, i)) = Cardinality(HeldBy(A, i)) - Cardinality(HeldBy(B, i))
<1>1. /\ HeldBy(A \ B, i) = HeldBy(A, i) \ HeldBy(B, i)
      /\ HeldBy(A, i) \cap HeldBy(B, i) = HeldBy(B, i)
      /\ HeldBy(A, i) \subseteq A /\ HeldBy(B, i) \subseteq A
  BY DEF HeldBy
<1>2. IsFiniteSet(HeldBy(A, i)) /\ IsFiniteSet(HeldBy(B, i))
  BY <1>1, FS_Subset
<1>3. Cardinality(HeldBy(A, i) \ HeldBy(B, i))
         = Cardinality(HeldBy(A, i)) - Cardinality(HeldBy(A, i) \cap HeldBy(B, i))
  BY <1>2, FS_Difference
<1> QED
  BY <1>1, <1>2, <1>3, FS_CardinalityType

\* The links are finitely many, and each tile's pool and links add up.
PoolInv ==
    /\ pool \in [TileSlot -> Nat]
    /\ IsFiniteSet(links)
    /\ PoolsBalance

\* What the refused links leave of those wanted finds room.
LEMMA MadeFitRoom ==
    ASSUME NEW wanted, IsFiniteSet(wanted), NEW room \in [TileSlot -> Nat],
           NEW lost \in Lost(wanted, room), NEW j \in TileSlot
    PROVE  /\ IsFiniteSet(wanted \ lost)
           /\ Cardinality(HeldBy(wanted \ lost, j)) \in Nat
           /\ Cardinality(HeldBy(wanted \ lost, j)) <= room[j]
<1>1. /\ lost \subseteq wanted
      /\ LET asked == Cardinality(HeldBy(wanted, j)) IN
         Cardinality(HeldBy(lost, j)) = IF asked > room[j] THEN asked - room[j] ELSE 0
  BY DEF Lost
<1>2. /\ Cardinality(HeldBy(wanted, j)) \in Nat /\ Cardinality(HeldBy(lost, j)) \in Nat
      /\ Cardinality(HeldBy(wanted \ lost, j))
            = Cardinality(HeldBy(wanted, j)) - Cardinality(HeldBy(lost, j))
  BY <1>1, HeldLess
<1>3. room[j] \in Nat
  OBVIOUS
<1>4. IsFiniteSet(wanted \ lost)
  BY FS_Difference
<1> QED
  BY <1>1, <1>2, <1>3, <1>4

\* A tile that comes pays for its links from its own pool, and each neighbour
\* for its link to it.
LEMMA AddPools ==
    ASSUME SlotInv, GraphInv, PoolInv, NEW d \in Data, NEW lastRef \in TileRef \cup {NoRef},
           AddTile(d, lastRef)
    PROVE  PoolInv'
<1>1. CASE MeshKept
  BY <1>1 DEF MeshKept, PoolInv, PoolsBalance, InUse, HeldBy
<1>2. ASSUME NEW i \in TileSlot, NEW ref \in TileRef,
             Placed(d, lastRef, i, ref), Linked(d, i, ref)
      PROVE  PoolInv'
  <2> DEFINE inner == InnerLinks(ref, d)
             wanted == Wanted(ref, d)
             room == Room(d, i, ref)
  <2>1. PICK lost \in Lost(wanted, room) :
           /\ links' = links \cup inner \cup (wanted \ lost)
           /\ pool' = [j \in TileSlot |-> room[j] - Cardinality(HeldBy(wanted \ lost, j))]
    BY <1>2 DEF Linked
  <2> DEFINE made == wanted \ lost
  <2>2. /\ ref.slot = i /\ i \notin InUse
        /\ \A u \in Present : u.ref.slot # i
        /\ InUse' = InUse \cup {i}
        /\ \A j \in InUse : tiles'[j] = tiles[j] /\ j \in TileSlot /\ j # i
        /\ tiles'[i].data = d
    <3>1. ref.slot = i /\ i \notin InUse
      BY <1>2 DEF Placed
    <3>2. \A j \in InUse : j \in TileSlot /\ j # i
      BY <3>1 DEF InUse
    <3> HIDE DEF inner, wanted, room, made
    <3> QED
      BY <1>2, <3>1, <3>2, PresentGrows
  <2>3. /\ IsFiniteSet(inner) /\ Cardinality(inner) \in Nat
        /\ MaxLinks[d] \in Nat /\ Cardinality(inner) <= MaxLinks[d]
    BY InnerRoom
  <2>4. /\ room \in [TileSlot -> Nat]
        /\ room[i] = MaxLinks[d] - Cardinality(inner)
        /\ \A j \in TileSlot : j # i => room[j] = pool[j]
    <3>1. MaxLinks[d] - Cardinality(inner) \in Nat
      BY <2>3
    <3>2. pool \in [TileSlot -> Nat]
      BY DEF PoolInv
    <3>3. room = [pool EXCEPT ![i] = MaxLinks[d] - Cardinality(inner)]
      BY DEF Room
    <3> HIDE DEF room, inner
    <3> QED
      BY <3>1, <3>2, <3>3
  <2>5. IsFiniteSet(wanted)
    BY WantedFinite
  <2>6. ASSUME NEW j \in TileSlot
        PROVE  /\ IsFiniteSet(made)
               /\ Cardinality(HeldBy(made, j)) \in Nat
               /\ Cardinality(HeldBy(made, j)) <= room[j]
    <3> HIDE DEF wanted, room
    <3> QED
      BY <2>4, <2>5, MadeFitRoom
  <2>7. \A l \in links : l.at.slot # i /\ l.to.slot # i
    <3> SUFFICES ASSUME NEW l \in links PROVE l.at.slot # i /\ l.to.slot # i
      OBVIOUS
    <3>1. l \in Graph(Present)
      BY DEF GraphInv
    <3> QED
      BY <2>2, <3>1, GraphEnds
  <2>8. \A l \in inner : l.at.slot = i /\ l.via = {}
    BY <2>2, InnerLinkEnds
  <2>9. \A l \in made : l.via # {} /\ (l.at.slot = i \/ l.to.slot = i)
    <3> SUFFICES ASSUME NEW l \in wanted PROVE l.via # {} /\ (l.at = ref \/ l.to = ref)
      BY <2>2
    <3>1. PICK u \in Present : \/ l \in ExtLinks(ref, d, u.ref, u.data)
                               \/ l \in ExtLinks(u.ref, u.data, ref, d)
      BY WantedLinks
    <3> QED
      BY <3>1, ExtLinkEnds
  <2> HIDE DEF inner, wanted, room, made
  <2>10. IsFiniteSet(links) /\ IsFiniteSet(inner) /\ IsFiniteSet(made)
    BY <1>2, <2>3, <2>6 DEF PoolInv
  <2>11. links' = (links \cup inner) \cup made
    BY <2>1 DEF made
  <2>12. IsFiniteSet(links \cup inner) /\ IsFiniteSet(links')
    <3>1. IsFiniteSet(links \cup inner)
      BY <2>10, FS_Union
    <3> QED
      BY <2>10, <2>11, <3>1, FS_Union
  <2>13. ASSUME NEW j \in TileSlot
         PROVE  Cardinality(HeldBy(links', j)) = Cardinality(HeldBy(links, j))
                   + Cardinality(HeldBy(inner, j)) + Cardinality(HeldBy(made, j))
    <3>1. Cardinality(HeldBy(links \cup inner, j))
             = Cardinality(HeldBy(links, j)) + Cardinality(HeldBy(inner, j))
      BY <2>7, <2>8, <2>10, HeldApart
    <3>2. \A l \in links \cup inner : l \in made => l.at.slot # j
      BY <2>7, <2>8, <2>9
    <3>3. Cardinality(HeldBy((links \cup inner) \cup made, j))
             = Cardinality(HeldBy(links \cup inner, j)) + Cardinality(HeldBy(made, j))
      BY <2>10, <2>12, <3>2, HeldApart
    <3> QED
      BY <2>11, <3>1, <3>3
  <2>14. ASSUME NEW j \in TileSlot
         PROVE  pool'[j] \in Nat /\ pool'[j] = room[j] - Cardinality(HeldBy(made, j))
    BY <2>1, <2>4, <2>6 DEF made
  <2>15. pool' \in [TileSlot -> Nat]
    BY <2>1, <2>14
  <2>16. ASSUME NEW j \in InUse'
         PROVE  pool'[j] + Cardinality(HeldBy(links', j)) = MaxLinks[tiles'[j].data]
    <3>1. j \in TileSlot /\ Cardinality(HeldBy(made, j)) \in Nat /\ room[j] \in Nat
      BY <2>2, <2>4, <2>6
    <3>2. CASE j = i
      <4>1. HeldBy(links, i) = {} /\ HeldBy(inner, i) = inner
        BY <2>7, <2>8 DEF HeldBy
      <4>2. Cardinality(HeldBy(links, i)) = 0 /\ Cardinality(HeldBy(inner, i)) = Cardinality(inner)
        BY <4>1, FS_EmptySet
      <4> QED
        BY <2>2, <2>3, <2>4, <2>13, <2>14, <3>1, <3>2, <4>2
    <3>3. CASE j # i
      <4>1. j \in InUse /\ tiles'[j] = tiles[j] /\ room[j] = pool[j]
        BY <2>2, <2>4, <3>1, <3>3
      <4>2. HeldBy(inner, j) = {}
        BY <2>8, <3>3 DEF HeldBy
      <4>3. Cardinality(HeldBy(inner, j)) = 0
        BY <4>2, FS_EmptySet
      <4>4. pool[j] + Cardinality(HeldBy(links, j)) = MaxLinks[tiles[j].data]
        BY <4>1 DEF PoolInv, PoolsBalance
      <4>5. Cardinality(HeldBy(links, j)) \in Nat
        BY <2>10, HeldLess
      <4> QED
        BY <2>13, <2>14, <3>1, <4>1, <4>3, <4>4, <4>5
    <3> QED
      BY <3>2, <3>3
  <2>17. PoolsBalance'
    <3>1. \A j : HeldBy(links, j)' = HeldBy(links', j)
      BY DEF HeldBy
    <3> QED
      BY <2>16, <3>1 DEF PoolsBalance
  <2> QED
    BY <2>12, <2>15, <2>17 DEF PoolInv
<1> QED
  BY <1>1, <1>2, AddEffect

\* A tile that goes gives its neighbours their links to it back.
LEMMA RemovePools ==
    ASSUME SlotInv, GraphInv, PoolInv, NEW ref \in TileRef, RemoveTile(ref)
    PROVE  PoolInv'
<1>1. CASE ref.slot \notin InUse
  BY <1>1 DEF RemoveTile, PoolInv, PoolsBalance, InUse, HeldBy
<1>2. CASE ref.slot \in InUse
  <2> DEFINE i == ref.slot
             severed == Severed(i)
  <2>1. i \in TileSlot /\ pool \in [TileSlot -> Nat] /\ IsFiniteSet(links)
    BY Constants DEF PoolInv
  <2>2. /\ links' = {l \in links \ severed : l.at.slot # i}
        /\ pool' = [[j \in TileSlot |-> Freed(severed, j)] EXCEPT ![i] = 0]
    BY <1>2 DEF RemoveTile
  <2>3. severed \subseteq links
    BY DEF Severed
  <2>4. InUse' = InUse \ {i} /\ \A j \in InUse' : tiles'[j] = tiles[j]
    BY <1>2, PresentShrinks
  <2> HIDE DEF i, severed
  <2>5. ASSUME NEW j
        PROVE  /\ Cardinality(HeldBy(links, j)) \in Nat /\ Cardinality(HeldBy(severed, j)) \in Nat
               /\ Cardinality(HeldBy(links \ severed, j))
                     = Cardinality(HeldBy(links, j)) - Cardinality(HeldBy(severed, j))
    BY <2>1, <2>3, HeldLess
  <2>6. IsFiniteSet(links')
    BY <2>1, <2>2, FS_Subset
  <2>7. ASSUME NEW j \in TileSlot
        PROVE  pool'[j] = IF j = i THEN 0 ELSE pool[j] + Cardinality(HeldBy(severed, j))
    BY <2>1, <2>2 DEF Freed
  <2>8. pool' \in [TileSlot -> Nat]
    <3>1. \A j \in TileSlot : pool[j] + Cardinality(HeldBy(severed, j)) \in Nat
      BY <2>1, <2>5
    <3>2. \A j \in TileSlot : pool'[j] \in Nat
      BY <2>7, <3>1
    <3> QED
      BY <2>2, <3>2
  <2>9. ASSUME NEW j \in InUse'
        PROVE  pool'[j] + Cardinality(HeldBy(links', j)) = MaxLinks[tiles'[j].data]
    <3>1. j \in InUse /\ j # i /\ j \in TileSlot /\ tiles'[j] = tiles[j]
      BY <2>4 DEF InUse
    <3>2. HeldBy(links', j) = HeldBy(links \ severed, j)
      BY <2>2, <3>1 DEF HeldBy
    <3>3. pool[j] + Cardinality(HeldBy(links, j)) = MaxLinks[tiles[j].data]
      BY <3>1 DEF PoolInv, PoolsBalance
    <3>4. Cardinality(HeldBy(links', j))
             = Cardinality(HeldBy(links, j)) - Cardinality(HeldBy(severed, j))
      BY <2>5, <3>2
    <3>5. pool'[j] = pool[j] + Cardinality(HeldBy(severed, j)) /\ pool[j] \in Nat
      BY <2>1, <2>7, <3>1
    <3> QED
      BY <2>5, <3>1, <3>3, <3>4, <3>5
  <2>10. PoolsBalance'
    <3>1. \A j : HeldBy(links, j)' = HeldBy(links', j)
      BY DEF HeldBy
    <3> QED
      BY <2>9, <3>1 DEF PoolsBalance
  <2> QED
    BY <2>6, <2>8, <2>10 DEF PoolInv
<1> QED
  BY <1>1, <1>2

\* Every step keeps the pools in balance.
LEMMA PoolsStep == SlotInv /\ GraphInv /\ PoolInv /\ [Next]_vars => PoolInv'
<1>1. ASSUME PoolInv, UNCHANGED vars PROVE PoolInv'
  BY <1>1 DEF vars, PoolInv, PoolsBalance, InUse, HeldBy
<1> QED
  BY <1>1, AddPools, RemovePools DEF Next

\* All pools are empty at the start.
LEMMA PoolsInit == Init => PoolInv
<1> SUFFICES ASSUME Init PROVE PoolInv
  OBVIOUS
<1>1. InUse = {}
  BY DEF Init, InUse
<1> QED
  BY <1>1, FS_EmptySet DEF Init, PoolInv, PoolsBalance

\* A tile's links and the rest of its pool add up to what its data brought:
\* tiles that come and go around it leak none of them and free none twice
\* (NavMesh.AddTile, RemoveTile, allocLink, freeLink).
THEOREM PoolsStayBalanced == Spec => []PoolsBalance
<1>1. PoolInv => PoolsBalance
  BY DEF PoolInv
<1> QED
  BY SlotsInit, GraphInit, PoolsInit, SlotsStep, GraphStep, PoolsStep, <1>1, PTL DEF Spec

\* The links a set of tiles asks for lead between polygons across portals.
LEMMA GraphTypes ==
    ASSUME NEW S, \A t \in S : t.ref \in TileRef /\ t.data \in Data, NEW l \in Graph(S)
    PROVE  l \in Link
<1> DEFINE portals == UNION {Portals[d] : d \in Data}
<1>1. \A d \in Data : /\ Polys[d] \in Nat
                      /\ Inner[d] \subseteq (1..Polys[d]) \X (1..Polys[d])
                      /\ \A p \in Portals[d] : p.poly \in 1..Polys[d] /\ p \in portals
  BY DataAssumption
<1>2. CASE \E t \in S : l \in InnerLinks(t.ref, t.data)
  <2>1. PICK t \in S : l \in InnerLinks(t.ref, t.data)
    BY <1>2
  <2>2. PICK e \in Inner[t.data] :
           l = [at |-> t.ref, poly |-> e[1], via |-> {}, to |-> t.ref, toPoly |-> e[2]]
    BY <2>1 DEF InnerLinks
  <2>3. t.ref \in TileRef /\ e[1] \in Nat /\ e[2] \in Nat
    BY <1>1
  <2> QED
    BY <2>2, <2>3 DEF Link
<1>3. CASE \E t, u \in S : t # u /\ l \in ExtLinks(t.ref, t.data, u.ref, u.data)
  <2>1. PICK t \in S, u \in S : l \in ExtLinks(t.ref, t.data, u.ref, u.data)
    BY <1>3
  <2>2. PICK p \in Portals[t.data] :
           l \in {[at |-> t.ref, poly |-> p.poly, via |-> {p}, to |-> u.ref, toPoly |-> q] :
                      q \in findConnectingPolys(p, u.data)}
    BY <2>1 DEF ExtLinks
  <2>3. PICK q \in findConnectingPolys(p, u.data) :
           l = [at |-> t.ref, poly |-> p.poly, via |-> {p}, to |-> u.ref, toPoly |-> q]
    BY <2>2
  <2>4. p.poly \in Nat /\ p \in portals
    BY <1>1
  <2>5. q \in Nat
    BY <1>1 DEF findConnectingPolys, Meeting
  <2>6. t.ref \in TileRef /\ u.ref \in TileRef
    OBVIOUS
  <2> HIDE DEF portals
  <2>7. {p} \in SUBSET portals
    BY <2>4
  <2>8. l \in [at : TileRef, poly : Nat, via : SUBSET portals, to : TileRef, toPoly : Nat]
    BY <2>3, <2>4, <2>5, <2>6, <2>7
  <2> QED
    BY <2>8 DEF Link, portals
<1> QED
  BY <1>2, <1>3, GraphLinks

\* The mesh's variables have their types: a link is one between polygons of the
\* tiles, and no pool ever holds less than nothing.
THEOREM MeshTypes == Spec => []TypeOK
<1>1. SlotInv /\ GraphInv /\ PoolInv => TypeOK
  <2> SUFFICES ASSUME SlotInv, GraphInv, PoolInv PROVE TypeOK
    OBVIOUS
  <2>1. \A u \in Present : u.ref \in TileRef /\ u.data \in Data
    <3> SUFFICES ASSUME NEW u \in Present PROVE u.ref \in TileRef /\ u.data \in Data
      OBVIOUS
    <3>1. PICK j \in InUse : u.ref = GetTileRef(j) /\ u.data = tiles[j].data
      BY PresentTiles
    <3>2. j \in TileSlot /\ tiles[j].salt \in 1..(SaltMod - 1) /\ tiles[j].data \in Data
      BY DEF SlotInv, SlotTypes, Tile, InUse
    <3> QED
      BY <3>1, <3>2, Constants DEF GetTileRef
  <2>2. \A l \in links \cup missing : l \in Link
    BY <2>1, GraphTypes DEF GraphInv
  <2> QED
    BY <2>2 DEF TypeOK, SlotInv, SlotTypes, Tile, PoolInv
<1> QED
  BY SlotsInit, GraphInit, PoolsInit, SlotsStep, GraphStep, PoolsStep, <1>1, PTL DEF Spec
=============================================================================
