-------------------------- MODULE TileCacheProofs --------------------------
(***************************************************************************)
(* Theorems about TileCache, for every value of its constants: its slots    *)
(* and queues, and what the navigation mesh shows of the obstacles.         *)
(***************************************************************************)
EXTENDS TileCache, SequenceTheorems, FiniteSetTheorems, TLAPS

\* A salt never becomes 0, the value of the null reference, and freeing a slot
\* always changes it (Update, RemoveTile).
THEOREM NextSaltNonZero ==
    ASSUME NEW mod \in Nat, mod >= 3, NEW salt \in 1..(mod - 1)
    PROVE  /\ NextSalt(salt, mod) \in 1..(mod - 1)
           /\ NextSalt(salt, mod) # salt
<1>1. CASE salt + 1 < mod
  <2>1. (salt + 1) % mod = salt + 1
    BY <1>1
  <2> QED
    BY <1>1, <2>1 DEF NextSalt
<1>2. CASE salt + 1 = mod
  <2>1. (salt + 1) % mod = 0
    BY <1>2
  <2> QED
    BY <1>2, <2>1 DEF NextSalt
<1> QED
  BY <1>1, <1>2

----------------------------------------------------------------------------
(* Type correctness *)

\* A fresh tile cache has the declared types.
LEMMA InitType == Init => TypeOK
<1> SUFFICES ASSUME Init PROVE TypeOK
  OBVIOUS
<1> USE ConstantsAssumption DEF Init
<1>1. /\ tiles \in [TileSlot -> [salt : 1..(TileSaltMod - 1), loc : Loc \cup {NoLoc}]]
      /\ freeTiles \in Seq(TileSlot)
      /\ posLookup \in [Cells -> SUBSET TileSlot]
  BY DEF TileSlot
<1>2. /\ obstacles \in [ObSlot -> Obstacle]
      /\ freeObs \in Seq(ObSlot)
  <2>1. (CHOOSE s \in Shapes : TRUE) \in Shapes
    OBVIOUS
  <2> QED
    BY <2>1 DEF Obstacle, ObSlot
<1>3. /\ reqs \in Seq(Request) /\ Len(reqs) <= MaxRequests
      /\ update \in Seq(TileRef) /\ Len(update) <= MaxUpdate
  OBVIOUS
<1> QED
  BY <1>1, <1>2, <1>3 DEF TypeOK

\* A rebuild keeps the types of the mesh and of the history of rebuilds.
LEMMA RebuildType ==
    ASSUME TypeOK, NEW ref \in TileRef, NEW outcome,
           BuildNavMeshTile(ref, outcome)
    PROVE  mesh' \in [Loc -> MeshTile \cup {NoMesh}] /\ built' \in SUBSET TileRef
<1>1. Marks(ref) \in SUBSET ObRef
  BY DEF TypeOK, Marks, RefOfObstacle, ObRef, ObSlot, Obstacle
<1>2. Baked(ref) \in MeshTile \cup {NoMesh}
  BY <1>1 DEF Baked, MeshTile
<1>3. mesh' \in [Loc -> MeshTile \cup {NoMesh}]
  BY <1>2 DEF TypeOK, BuildNavMeshTile
<1>4. built' \in SUBSET TileRef
  BY DEF TypeOK, BuildNavMeshTile
<1> QED
  BY <1>3, <1>4

\* What the rebuild does to an obstacle keeps it an obstacle.
LEMMA SettledType ==
    ASSUME NEW ob \in Obstacle, NEW ref \in TileRef
    PROVE  Settled(Drained(ob, ref)) \in Obstacle
<1>1. Drained(ob, ref) \in Obstacle
  BY DEF Drained, Obstacle
<1> DEFINE d == Drained(ob, ref)
<1>2. d \in Obstacle
  BY <1>1
<1> HIDE DEF d
<1>3. NextSalt(d.salt, ObSaltMod) \in 1..(ObSaltMod - 1)
  BY <1>2, NextSaltNonZero, ConstantsAssumption DEF Obstacle
<1>4. Settled(d) \in Obstacle
  BY <1>2, <1>3 DEF Settled, Obstacle
<1> QED
  BY <1>4 DEF d

\* Taking a request keeps the obstacle it is for an obstacle.
LEMMA RequestedType ==
    ASSUME NEW ob \in Obstacle, NEW touched \in SUBSET TileRef
    PROVE  /\ [ob EXCEPT !.touched = touched, !.pending = {}] \in Obstacle
           /\ [ob EXCEPT !.state = "removing", !.pending = {}] \in Obstacle
           /\ ob.touched \in SUBSET TileRef
<1> DEFINE aimed == [ob EXCEPT !.touched = touched]
           leaving == [ob EXCEPT !.state = "removing"]
<1>1. aimed \in Obstacle /\ leaving \in Obstacle
  BY DEF Obstacle
<1>2. ASSUME NEW r \in Obstacle PROVE [r EXCEPT !.pending = {}] \in Obstacle
  BY DEF Obstacle
<1>3. /\ [ob EXCEPT !.touched = touched, !.pending = {}] = [aimed EXCEPT !.pending = {}]
      /\ [ob EXCEPT !.state = "removing", !.pending = {}] = [leaving EXCEPT !.pending = {}]
  OBVIOUS
<1>4. ob.touched \in SUBSET TileRef
  BY DEF Obstacle
<1> HIDE DEF aimed, leaving
<1> QED
  BY <1>1, <1>2, <1>3, <1>4

\* Head and Tail of a non-empty sequence stay within its type.
LEMMA HeadTailType ==
    ASSUME NEW S, NEW s \in Seq(S), s # <<>>
    PROVE  /\ Head(s) \in S /\ Tail(s) \in Seq(S) /\ Len(Tail(s)) = Len(s) - 1
           /\ \A x \in 1..Len(Tail(s)) : Tail(s)[x] = s[x + 1]
  BY HeadTailProperties

\* Update only goes on to a rebuild when a tile waits for it.
WorkToDo == pc = "build" => update # <<>>

\* No step of a client or of Update takes a variable out of its type.
LEMMA NextType == TypeOK /\ WorkToDo /\ [Next]_vars => TypeOK'
<1> SUFFICES ASSUME TypeOK, WorkToDo, [Next]_vars PROVE TypeOK'
  OBVIOUS
<1> USE ConstantsAssumption
<1>1. ASSUME NEW l \in Loc, AddTile(l) PROVE TypeOK'
  <2>1. Head(freeTiles) \in TileSlot /\ Tail(freeTiles) \in Seq(TileSlot)
    BY <1>1, HeadTailType DEF TypeOK, AddTile
  <2>2. l[1] \in Cells
    BY DEF Loc
  <2> QED
    BY <1>1, <2>1, <2>2 DEF TypeOK, AddTile, obVars
<1>2. ASSUME NEW ref \in TileRef, RemoveTile(ref) PROVE TypeOK'
  <2>1. ref.slot \in TileSlot
    BY DEF TileRef
  <2>2. NextSalt(tiles[ref.slot].salt, TileSaltMod) \in 1..(TileSaltMod - 1)
    BY <2>1, NextSaltNonZero DEF TypeOK
  <2>3. tiles' \in [TileSlot -> [salt : 1..(TileSaltMod - 1), loc : Loc \cup {NoLoc}]]
    BY <1>2, <2>1, <2>2 DEF TypeOK, RemoveTile
  <2>4. freeTiles' \in Seq(TileSlot)
    BY <1>2, <2>1 DEF TypeOK, RemoveTile
  <2>5. posLookup' \in [Cells -> SUBSET TileSlot]
    BY <1>2 DEF TypeOK, RemoveTile, Unlinked
  <2>6. built' \in SUBSET TileRef
    BY <1>2 DEF TypeOK, RemoveTile
  <2> QED
    BY <1>2, <2>3, <2>4, <2>5, <2>6 DEF TypeOK, RemoveTile, obVars
<1>3. ASSUME NEW shape \in Shapes, AddObstacle(shape) PROVE TypeOK'
  <2>1. Head(freeObs) \in ObSlot /\ Tail(freeObs) \in Seq(ObSlot)
    BY <1>3, HeadTailType DEF TypeOK, AddObstacle
  <2>2. RefOfObstacle(Head(freeObs)) \in ObRef
    BY <2>1 DEF TypeOK, RefOfObstacle, ObRef, Obstacle
  <2>3. obstacles' \in [ObSlot -> Obstacle]
    BY <1>3, <2>1 DEF TypeOK, AddObstacle, Obstacle
  <2>4. reqs' \in Seq(Request) /\ Len(reqs') <= MaxRequests
    BY <1>3, <2>2 DEF TypeOK, AddObstacle, RequestRoom, Request
  <2> QED
    BY <1>3, <2>1, <2>3, <2>4 DEF TypeOK, AddObstacle, tileVars
<1>4. ASSUME NEW ref \in ObRef, RemoveObstacle(ref) PROVE TypeOK'
  <2>1. reqs' \in Seq(Request) /\ Len(reqs') <= MaxRequests
    BY <1>4 DEF TypeOK, RemoveObstacle, RequestRoom, Request
  <2>2. asked' \in [ObSlot -> BOOLEAN]
    BY <1>4, ref.slot \in ObSlot DEF TypeOK, RemoveObstacle, ObRef
  <2> QED
    BY <1>4, <2>1, <2>2 DEF TypeOK, RemoveObstacle, tileVars
<1>5. ASSUME NEW ref \in TileRef, BuildTile(ref) PROVE TypeOK'
  BY <1>5, RebuildType DEF TypeOK, BuildTile, tileVars, obVars
<1>6. CASE UpdateCall
  BY <1>6 DEF TypeOK, UpdateCall, tileVars, obVars
<1>7. CASE TakeRequest
  <2> DEFINE o == Head(reqs).ref.slot
  <2>1. Head(reqs) \in Request /\ Tail(reqs) \in Seq(Request) /\ Len(Tail(reqs)) <= MaxRequests
    <3>1. reqs \in Seq(Request) /\ Len(reqs) <= MaxRequests
      BY DEF TypeOK
    <3>a. reqs # <<>>
      BY <1>7 DEF TakeRequest
    <3>2. Len(Tail(reqs)) = Len(reqs) - 1 /\ MaxRequests \in Nat
      BY <3>1, <3>a, HeadTailType
    <3> QED
      BY <3>1, <3>a, <3>2, HeadTailType
  <2>2. o \in ObSlot
    BY <2>1 DEF Request, ObRef
  <2>3. ASSUME NEW touched \in QueryTiles(obstacles[o].shape) PROVE touched \in SUBSET TileRef
    <3>1. TilesHit(obstacles[o].shape) \in SUBSET TileRef
      BY DEF TilesHit, RefOfTile, TileRef, TypeOK, Range
    <3> QED
      BY <2>3, <3>1 DEF QueryTiles
  <2>4. CASE ~RequestLive(Head(reqs))
    <3>1. UNCHANGED <<obstacles, todo>>
      BY <1>7, <2>4 DEF TakeRequest
    <3> QED
      BY <1>7, <2>1, <3>1 DEF TypeOK, TakeRequest, tileVars
  <2>5. CASE RequestLive(Head(reqs)) /\ Head(reqs).action = "add"
    <3>1. PICK touched \in QueryTiles(obstacles[o].shape) :
            /\ obstacles' = [obstacles EXCEPT ![o] =
                   [@ EXCEPT !.touched = touched, !.pending = {}]]
            /\ todo' = [todo EXCEPT ![o] = touched]
      BY <1>7, <2>5 DEF TakeRequest
    <3>2. touched \in SUBSET TileRef
      BY <2>3
    <3>3. obstacles' \in [ObSlot -> Obstacle]
      <4>1. [obstacles[o] EXCEPT !.touched = touched, !.pending = {}] \in Obstacle
        BY <2>2, <3>2, RequestedType DEF TypeOK
      <4> QED
        BY <2>2, <3>1, <4>1 DEF TypeOK
    <3>4. todo' \in [ObSlot -> SUBSET TileRef]
      BY <2>2, <3>1, <3>2 DEF TypeOK
    <3> QED
      BY <1>7, <2>1, <3>3, <3>4 DEF TypeOK, TakeRequest, tileVars
  <2>6. CASE RequestLive(Head(reqs)) /\ Head(reqs).action = "remove"
    <3>1. /\ obstacles' = [obstacles EXCEPT ![o] =
                   [@ EXCEPT !.state = "removing", !.pending = {}]]
          /\ todo' = [todo EXCEPT ![o] = obstacles[o].touched]
      BY <1>7, <2>6 DEF TakeRequest
    <3>2. obstacles' \in [ObSlot -> Obstacle]
      <4>1. [obstacles[o] EXCEPT !.state = "removing", !.pending = {}] \in Obstacle
        BY <2>2, RequestedType DEF TypeOK
      <4> QED
        BY <2>2, <3>1, <4>1 DEF TypeOK
    <3>3. todo' \in [ObSlot -> SUBSET TileRef]
      BY <2>2, <3>1 DEF TypeOK, Obstacle
    <3> QED
      BY <1>7, <2>1, <3>2, <3>3 DEF TypeOK, TakeRequest, tileVars
  <2> QED
    BY <2>1, <2>4, <2>5, <2>6 DEF Request
<1>8. ASSUME NEW o \in ObSlot, NEW ref \in TileRef, QueueTile(o, ref) PROVE TypeOK'
  <2>1. todo' \in [ObSlot -> SUBSET TileRef]
    BY <1>8 DEF TypeOK, QueueTile
  <2>2. CASE Len(update) < MaxUpdate
    <3>1. obstacles' = [obstacles EXCEPT ![o].pending = @ \cup {ref}]
      BY <1>8, <2>2 DEF QueueTile
    <3>2. update' = update \/ update' = Append(update, ref)
      BY <1>8, <2>2 DEF QueueTile
    <3>3. obstacles' \in [ObSlot -> Obstacle]
      BY <3>1 DEF TypeOK, Obstacle
    <3>4. update' \in Seq(TileRef) /\ Len(update') <= MaxUpdate
      <4>1. update \in Seq(TileRef) /\ Len(update) \in Nat /\ Len(update) <= MaxUpdate
        BY DEF TypeOK
      <4>2. Append(update, ref) \in Seq(TileRef) /\ Len(Append(update, ref)) = Len(update) + 1
        BY <4>1
      <4> QED
        BY <2>2, <3>2, <4>1, <4>2
    <3> QED
      BY <1>8, <2>1, <3>3, <3>4 DEF TypeOK, QueueTile, tileVars
  <2>3. CASE ~(Len(update) < MaxUpdate)
    <3>1. UNCHANGED <<update, obstacles>>
      BY <1>8, <2>3 DEF QueueTile
    <3> QED
      BY <1>8, <2>1, <3>1 DEF TypeOK, QueueTile, tileVars
  <2> QED
    BY <2>2, <2>3
<1>9. CASE RequestsTaken
  BY <1>9 DEF TypeOK, RequestsTaken, tileVars, obVars
<1>10. CASE Rebuild
  <2> DEFINE ref == Head(update)
  <2>1. ref \in TileRef /\ Tail(update) \in Seq(TileRef) /\ Len(Tail(update)) <= MaxUpdate
    BY <1>10, HeadTailType DEF TypeOK, WorkToDo, Rebuild
  <2>2. PICK outcome \in Outcomes(ref) :
          BuildNavMeshTile(ref, outcome) /\ update' = Dequeued(outcome)
    BY <1>10 DEF Rebuild
  <2>3. mesh' \in [Loc -> MeshTile \cup {NoMesh}] /\ built' \in SUBSET TileRef
    BY <2>1, <2>2, RebuildType
  <2>4. obstacles' \in [ObSlot -> Obstacle]
    <3>1. ASSUME NEW o \in ObSlot
          PROVE  Settled(Drained(obstacles[o], ref)) \in Obstacle
      BY <2>1, SettledType DEF TypeOK
    <3> QED
      BY <1>10, <3>1 DEF Rebuild
  <2>5. freeObs' \in Seq(ObSlot)
    <3>1. PICK order \in Descending(FreedBy(ref)) : freeObs' = order \o freeObs
      BY <1>10 DEF Rebuild
    <3>2. FreedBy(ref) \subseteq ObSlot
      BY DEF FreedBy
    <3>3. Cardinality(FreedBy(ref)) \in Nat
      <4>1. IsFiniteSet(ObSlot)
        BY FS_Interval DEF ObSlot
      <4> QED
        BY <3>2, <4>1, FS_Subset, FS_CardinalityType
    <3>4. order \in Seq(ObSlot)
      BY <3>1, <3>2, <3>3 DEF Descending
    <3> QED
      BY <3>1, <3>4 DEF TypeOK
  <2>6. update' \in Seq(TileRef) /\ Len(update') <= MaxUpdate
    BY <2>1, <2>2 DEF Dequeued
  <2> QED
    BY <1>10, <2>3, <2>4, <2>5, <2>6 DEF TypeOK, Rebuild, tileVars
<1>11. CASE UNCHANGED vars
  BY <1>11 DEF TypeOK, vars, tileVars, obVars
<1> QED
  BY <1>1, <1>2, <1>3, <1>4, <1>5, <1>6, <1>7, <1>8, <1>9, <1>10, <1>11
  DEF Next, ClientStep, UpdateStep

\* Update enters its rebuild phase only with a tile queued, in every step.
LEMMA NextWork == TypeOK /\ WorkToDo /\ [Next]_vars => WorkToDo'
<1> SUFFICES ASSUME TypeOK, WorkToDo, [Next]_vars PROVE WorkToDo'
  OBVIOUS
<1> QED
  BY DEF WorkToDo, Next, ClientStep, UpdateStep, AddTile, RemoveTile, AddObstacle,
         RemoveObstacle, BuildTile, UpdateCall, TakeRequest, QueueTile,
         RequestsTaken, Rebuild, vars

\* Every variable keeps its type, salts stay off 0, and the request and update
\* arrays never hold more than maxRequests and maxUpdate entries.
THEOREM TypeCorrect == Spec => []TypeOK
<1>1. Init => TypeOK /\ WorkToDo
  BY InitType DEF Init, WorkToDo
<1>2. TypeOK /\ WorkToDo /\ [Next]_vars => (TypeOK /\ WorkToDo)'
  BY NextType, NextWork
<1> QED
  BY <1>1, <1>2, PTL DEF Spec

----------------------------------------------------------------------------
(* What the helpers of sequences used above do to their elements *)

\* Append adds one element to the range of a sequence.
LEMMA AppendElements ==
    ASSUME NEW S, NEW s \in Seq(S), NEW e \in S
    PROVE  Range(Append(s, e)) = Range(s) \cup {e}
<1>1. Len(Append(s, e)) = Len(s) + 1 /\ DOMAIN s = 1..Len(s)
      /\ DOMAIN Append(s, e) = 1..(Len(s) + 1)
  OBVIOUS
<1>2. /\ \A i \in 1..Len(s) : Append(s, e)[i] = s[i]
      /\ Append(s, e)[Len(s) + 1] = e
  OBVIOUS
<1> QED
  BY <1>1, <1>2 DEF Range

\* Tail loses no element but the head; of an injective sequence, exactly it.
LEMMA TailElements ==
    ASSUME NEW S, NEW s \in Seq(S), s # <<>>
    PROVE  /\ Range(s) = {Head(s)} \cup Range(Tail(s))
           /\ IsInjective(s) => IsInjective(Tail(s)) /\ Head(s) \notin Range(Tail(s))
<1>1. /\ Len(s) \in Nat \ {0} /\ DOMAIN s = 1..Len(s)
      /\ DOMAIN Tail(s) = 1..(Len(s) - 1)
  BY HeadTailProperties
<1>2. Head(s) = s[1] /\ \A i \in 1..(Len(s) - 1) : Tail(s)[i] = s[i + 1]
  BY <1>1, HeadTailProperties
<1>3. ASSUME NEW i \in 2..Len(s) PROVE s[i] \in Range(Tail(s))
  <2>1. i - 1 \in 1..(Len(s) - 1) /\ Tail(s)[i - 1] = s[i]
    BY <1>1, <1>2
  <2> QED
    BY <1>1, <2>1 DEF Range
<1>4. Range(s) = {Head(s)} \cup Range(Tail(s))
  BY <1>1, <1>2, <1>3 DEF Range
<1>5. ASSUME IsInjective(s)
      PROVE  IsInjective(Tail(s)) /\ Head(s) \notin Range(Tail(s))
  <2>1. \A i, j \in 1..Len(s) : s[i] = s[j] => i = j
    BY <1>1, <1>5 DEF IsInjective
  <2>2. \A i, j \in 1..(Len(s) - 1) : Tail(s)[i] = Tail(s)[j] => i = j
    BY <1>1, <1>2, <2>1
  <2>3. \A i \in 1..(Len(s) - 1) : Tail(s)[i] # s[1]
    BY <1>1, <1>2, <2>1
  <2> QED
    BY <1>1, <1>2, <2>2, <2>3 DEF IsInjective, Range
<1> QED
  BY <1>4, <1>5

\* The concatenation of disjoint injective sequences is injective.
LEMMA ConcatElements ==
    ASSUME NEW S, NEW s \in Seq(S), NEW t \in Seq(S)
    PROVE  /\ Range(s \o t) = Range(s) \cup Range(t)
           /\ IsInjective(s) /\ IsInjective(t) /\ Range(s) \cap Range(t) = {}
                => IsInjective(s \o t)
<1>1. /\ DOMAIN s = 1..Len(s) /\ DOMAIN t = 1..Len(t)
      /\ DOMAIN (s \o t) = 1..(Len(s) + Len(t))
      /\ Len(s) \in Nat /\ Len(t) \in Nat
  OBVIOUS
<1>2. /\ \A i \in 1..Len(s) : (s \o t)[i] = s[i]
      /\ \A i \in (Len(s) + 1)..(Len(s) + Len(t)) : (s \o t)[i] = t[i - Len(s)]
  OBVIOUS
<1>3. ASSUME NEW i \in 1..Len(t) PROVE t[i] \in Range(s \o t)
  <2>1. Len(s) + i \in 1..(Len(s) + Len(t)) /\ (s \o t)[Len(s) + i] = t[i]
    BY <1>1, <1>2
  <2> QED
    BY <1>1, <2>1 DEF Range
<1>4. ASSUME NEW i \in 1..(Len(s) + Len(t))
      PROVE  \/ i \in 1..Len(s) /\ (s \o t)[i] = s[i]
             \/ i - Len(s) \in 1..Len(t) /\ (s \o t)[i] = t[i - Len(s)]
  BY <1>1, <1>2
<1>5. Range(s \o t) = Range(s) \cup Range(t)
  <2>1. ASSUME NEW i \in 1..(Len(s) + Len(t))
        PROVE  (s \o t)[i] \in Range(s) \cup Range(t)
    BY <1>1, <1>4 DEF Range
  <2>2. Range(s \o t) \subseteq Range(s) \cup Range(t)
    BY <1>1, <2>1 DEF Range
  <2>3. ASSUME NEW i \in 1..Len(s) PROVE s[i] \in Range(s \o t)
    <3>1. i \in 1..(Len(s) + Len(t)) /\ (s \o t)[i] = s[i]
      BY <1>1, <1>2
    <3> QED
      BY <1>1, <3>1 DEF Range
  <2>4. Range(s) \cup Range(t) \subseteq Range(s \o t)
    BY <1>1, <1>3, <2>3 DEF Range
  <2> QED
    BY <2>2, <2>4
<1>6. ASSUME IsInjective(s), IsInjective(t), Range(s) \cap Range(t) = {}
      PROVE  IsInjective(s \o t)
  <2>1. /\ \A i, j \in 1..Len(s) : s[i] = s[j] => i = j
        /\ \A i, j \in 1..Len(t) : t[i] = t[j] => i = j
        /\ \A i \in 1..Len(s), j \in 1..Len(t) : s[i] # t[j]
    BY <1>1, <1>6 DEF IsInjective, Range
  <2> SUFFICES ASSUME NEW i \in 1..(Len(s) + Len(t)), NEW j \in 1..(Len(s) + Len(t)),
                      (s \o t)[i] = (s \o t)[j]
               PROVE  i = j
    BY <1>1 DEF IsInjective
  <2>2. CASE i \in 1..Len(s) /\ j \in 1..Len(s)
    BY <1>2, <2>1, <2>2
  <2>3. CASE i \notin 1..Len(s) /\ j \notin 1..Len(s)
    <3>1. /\ i - Len(s) \in 1..Len(t) /\ (s \o t)[i] = t[i - Len(s)]
          /\ j - Len(s) \in 1..Len(t) /\ (s \o t)[j] = t[j - Len(s)]
      BY <1>4, <2>3
    <3>2. i - Len(s) = j - Len(s)
      BY <2>1, <3>1
    <3> QED
      BY <1>1, <3>2
  <2>4. CASE (i \in 1..Len(s)) # (j \in 1..Len(s))
    BY <1>2, <1>4, <2>1, <2>4
  <2> QED
    BY <2>2, <2>3, <2>4
<1> QED
  BY <1>5, <1>6

----------------------------------------------------------------------------
(* Obstacles in flux *)

\* At the start no obstacle waits for a tile.
LEMMA PendingInit == Init => PendingIsQueued
  BY DEF Init, PendingIsQueued, InFlux

\* No step takes a tile an obstacle waits for out of the update queue.
LEMMA PendingStep == TypeOK /\ WorkToDo /\ PendingIsQueued /\ [Next]_vars => PendingIsQueued'
<1> SUFFICES ASSUME TypeOK, WorkToDo, PendingIsQueued, [Next]_vars,
                    NEW p \in ObSlot, InFlux(obstacles'[p])
             PROVE  obstacles'[p].pending \subseteq Range(update')
  BY DEF PendingIsQueued, InFlux
<1>0. InFlux(obstacles[p]) => obstacles[p].pending \subseteq Range(update)
  BY DEF PendingIsQueued
<1>1. ASSUME NEW l \in Loc, AddTile(l) PROVE obstacles'[p].pending \subseteq Range(update')
  BY <1>0, <1>1 DEF AddTile, obVars
<1>2. ASSUME NEW ref \in TileRef, RemoveTile(ref)
      PROVE  obstacles'[p].pending \subseteq Range(update')
  BY <1>0, <1>2 DEF RemoveTile, obVars
<1>3. ASSUME NEW shape \in Shapes, AddObstacle(shape)
      PROVE  obstacles'[p].pending \subseteq Range(update')
  <2>1. p = Head(freeObs) \/ obstacles'[p] = obstacles[p]
    BY <1>3 DEF AddObstacle, TypeOK
  <2>2. p = Head(freeObs) => obstacles'[p].pending = {}
    BY <1>3 DEF AddObstacle, TypeOK
  <2> QED
    BY <1>0, <1>3, <2>1, <2>2 DEF AddObstacle
<1>4. ASSUME NEW ref \in ObRef, RemoveObstacle(ref)
      PROVE  obstacles'[p].pending \subseteq Range(update')
  BY <1>0, <1>4 DEF RemoveObstacle
<1>5. ASSUME NEW ref \in TileRef, BuildTile(ref)
      PROVE  obstacles'[p].pending \subseteq Range(update')
  BY <1>0, <1>5 DEF BuildTile, obVars
<1>6. CASE UpdateCall
  BY <1>0, <1>6 DEF UpdateCall, obVars
<1>7. CASE TakeRequest
  <2> DEFINE o == Head(reqs).ref.slot
  <2>1. obstacles'[p] = obstacles[p] \/ obstacles'[p].pending = {}
    <3>1. \/ obstacles' = obstacles
          \/ \E touched : obstacles' = [obstacles EXCEPT ![o] =
                  [@ EXCEPT !.touched = touched, !.pending = {}]]
          \/ obstacles' = [obstacles EXCEPT ![o] =
                  [@ EXCEPT !.state = "removing", !.pending = {}]]
      BY <1>7 DEF TakeRequest
    <3>2. obstacles \in [ObSlot -> Obstacle]
      BY DEF TypeOK
    <3>3. ASSUME NEW touched,
                 obstacles' = [obstacles EXCEPT ![o] =
                    [@ EXCEPT !.touched = touched, !.pending = {}]]
          PROVE  obstacles'[p] = obstacles[p] \/ obstacles'[p].pending = {}
      BY <3>2, <3>3 DEF Obstacle
    <3>4. ASSUME obstacles' = [obstacles EXCEPT ![o] =
                    [@ EXCEPT !.state = "removing", !.pending = {}]]
          PROVE  obstacles'[p] = obstacles[p] \/ obstacles'[p].pending = {}
      BY <3>2, <3>4 DEF Obstacle
    <3> QED
      BY <3>1, <3>3, <3>4
  <2> QED
    BY <1>0, <1>7, <2>1 DEF TakeRequest
<1>8. ASSUME NEW o \in ObSlot, NEW ref \in TileRef, QueueTile(o, ref)
      PROVE  obstacles'[p].pending \subseteq Range(update')
  <2>1. CASE Len(update) < MaxUpdate
    <3>1. Range(update') = Range(update) \cup {ref}
      BY <1>8, <2>1, AppendElements DEF QueueTile, TypeOK
    <3>2. /\ obstacles'[p].state = obstacles[p].state
          /\ obstacles'[p].pending \subseteq obstacles[p].pending \cup {ref}
      <4>1. obstacles' = [obstacles EXCEPT ![o].pending = @ \cup {ref}]
        BY <1>8, <2>1 DEF QueueTile
      <4>2. obstacles \in [ObSlot -> Obstacle]
        BY DEF TypeOK
      <4> QED
        BY <4>1, <4>2 DEF Obstacle
    <3> QED
      BY <1>0, <3>1, <3>2 DEF InFlux
  <2>2. CASE ~(Len(update) < MaxUpdate)
    BY <1>0, <1>8, <2>2 DEF QueueTile
  <2> QED
    BY <2>1, <2>2
<1>9. CASE RequestsTaken
  BY <1>0, <1>9 DEF RequestsTaken, obVars
<1>10. CASE Rebuild
  <2>1. Range(update) = {Head(update)} \cup Range(update')
    BY <1>10, TailElements DEF Rebuild, Dequeued, TypeOK, WorkToDo
  <2>2. obstacles'[p] = Settled(Drained(obstacles[p], Head(update)))
    BY <1>10 DEF Rebuild
  <2>3. InFlux(obstacles[p]) /\ obstacles'[p].pending = obstacles[p].pending \ {Head(update)}
    <3>1. obstacles[p] \in Obstacle
      BY DEF TypeOK
    <3>2. ~Finished(Drained(obstacles[p], Head(update)))
      BY <2>2, <3>1 DEF Settled, Drained, Finished, InFlux, Obstacle
    <3>3. obstacles'[p] = Drained(obstacles[p], Head(update))
      BY <2>2, <3>2 DEF Settled
    <3> QED
      BY <3>1, <3>3 DEF Drained, InFlux, Obstacle
  <2> QED
    BY <1>0, <2>1, <2>3
<1>11. CASE UNCHANGED vars
  BY <1>0, <1>11 DEF vars, obVars
<1> QED
  BY <1>1, <1>2, <1>3, <1>4, <1>5, <1>6, <1>7, <1>8, <1>9, <1>10, <1>11
  DEF Next, ClientStep, UpdateStep

\* Whatever an obstacle in flux waits for is in the update queue, for any number
\* of tiles and obstacles and any capacity of the queue: Update, called often
\* enough, settles it.
THEOREM PendingQueued == Spec => []PendingIsQueued
<1>1. Init => TypeOK /\ WorkToDo /\ PendingIsQueued
  BY InitType, PendingInit DEF Init, WorkToDo
<1>2. TypeOK /\ WorkToDo /\ PendingIsQueued /\ [Next]_vars
        => (TypeOK /\ WorkToDo /\ PendingIsQueued)'
  BY NextType, NextWork, PendingStep
<1> QED
  BY <1>1, <1>2, PTL DEF Spec

----------------------------------------------------------------------------
(* Obstacle slots, their incarnations and the requests for them.           *)
(*                                                                         *)
(* That a removal request only hits its own obstacle rests on salts: a     *)
(* queued request carries the salt of an incarnation that was handed out,  *)
(* so it is older than the slot's, or the slot is still in use.  It needs  *)
(* the free chain to be exact (a slot handed out was empty) and salts that *)
(* have not wrapped, which ObSaltBound provides.                           *)

SaltsBounded ==
    \A o \in ObSlot : obstacles[o].state # "empty" => obstacles[o].salt <= ObSaltBound

Sound(req) ==
    LET ob == obstacles[req.ref.slot] IN
    /\ req.ref.salt <= ob.salt
    /\ req.ref.salt = ob.salt => ob.state # "empty"
    /\ req.action = "remove" /\ req.ref.salt = ob.salt => asked[req.ref.slot]

RequestsSound == \A req \in Range(reqs) : Sound(req)

SlotInv == ObstacleSlotsExact /\ SaltsBounded /\ RequestsSound /\ RemovedOnRequest

\* The strengthened slot invariant holds at the start.
LEMMA SlotInit == Init => SlotInv
<1> SUFFICES ASSUME Init PROVE SlotInv
  OBVIOUS
<1>1. ObstacleSlotsExact
  BY DEF Init, ObstacleSlotsExact, IsInjective, Range, ObSlot
<1>2. SaltsBounded /\ RemovedOnRequest
  BY DEF Init, SaltsBounded, RemovedOnRequest
<1>3. RequestsSound
  BY DEF Init, RequestsSound, Range
<1> QED
  BY <1>1, <1>2, <1>3 DEF SlotInv

\* Queued requests are requests, for obstacle slots that exist.
LEMMA RequestTypes ==
    ASSUME TypeOK, NEW req \in Range(reqs)
    PROVE  /\ req \in Request /\ req.ref.slot \in ObSlot
           /\ req.ref.salt \in Nat
<1>1. req \in Request
  BY DEF TypeOK, Range
<1> QED
  BY <1>1, ConstantsAssumption DEF Request, ObRef

\* Steps that neither allocate nor free: salts stay, and a state only becomes
\* "removing" for an obstacle in use whose removal was asked for.
LEMMA SlotFrame ==
    ASSUME TypeOK, SlotInv, UNCHANGED <<freeObs, asked>>,
           Range(reqs') \subseteq Range(reqs),
           \A o \in ObSlot :
              /\ obstacles'[o].salt = obstacles[o].salt
              /\ \/ obstacles'[o].state = obstacles[o].state
                 \/ /\ obstacles'[o].state = "removing"
                    /\ obstacles[o].state # "empty"
                    /\ asked[o]
    PROVE  SlotInv'
<1>1. ObstacleSlotsExact' /\ SaltsBounded' /\ RemovedOnRequest'
  BY DEF SlotInv, ObstacleSlotsExact, SaltsBounded, RemovedOnRequest
<1>2. RequestsSound'
  <2> SUFFICES ASSUME NEW req \in Range(reqs) PROVE Sound(req)'
    BY DEF RequestsSound
  <2> QED
    BY RequestTypes DEF SlotInv, RequestsSound, Sound
<1> QED
  BY <1>1, <1>2 DEF SlotInv

\* AddObstacle pops exactly the slot it takes and asks for its own obstacle.
LEMMA SlotAddObstacle ==
    ASSUME TypeOK, SlotInv, NEW shape \in Shapes, AddObstacle(shape)
    PROVE  SlotInv'
<1> DEFINE o == Head(freeObs)
<1>0. freeObs \in Seq(ObSlot) /\ freeObs # <<>> /\ o \in ObSlot
  BY HeadTailType DEF TypeOK, AddObstacle
<1>1. /\ Range(freeObs) = {o} \cup Range(freeObs')
      /\ IsInjective(freeObs') /\ o \notin Range(freeObs')
  BY <1>0, TailElements DEF AddObstacle, SlotInv, ObstacleSlotsExact
<1>2. obstacles[o].state = "empty"
  BY <1>1 DEF SlotInv, ObstacleSlotsExact
<1>3. /\ obstacles'[o].salt = obstacles[o].salt
      /\ obstacles'[o].state = "processing"
      /\ obstacles[o].salt <= ObSaltBound
      /\ \A p \in ObSlot : p # o => obstacles'[p] = obstacles[p]
  BY <1>0 DEF AddObstacle, TypeOK
<1>4. asked'[o] = FALSE /\ \A p \in ObSlot : p # o => asked'[p] = asked[p]
  BY <1>0 DEF AddObstacle, TypeOK
<1>5. ObstacleSlotsExact'
  BY <1>1, <1>2, <1>3 DEF SlotInv, ObstacleSlotsExact
<1>6. SaltsBounded' /\ RemovedOnRequest'
  BY <1>3, <1>4 DEF SlotInv, SaltsBounded, RemovedOnRequest
<1>7. RequestsSound'
  <2>1. [action |-> "add", ref |-> RefOfObstacle(o)] \in Request
    BY <1>0 DEF TypeOK, Request, RefOfObstacle, ObRef, Obstacle
  <2>2. PICK new \in Request : new = [action |-> "add", ref |-> RefOfObstacle(o)]
    BY <2>1
  <2>3. Range(reqs') = Range(reqs) \cup {new}
    BY <2>2, AppendElements DEF AddObstacle, TypeOK
  <2>5. obstacles[o].salt \in Nat
    BY <1>0, ConstantsAssumption DEF TypeOK, Obstacle
  <2>6. new.ref.slot = o /\ new.ref.salt = obstacles[o].salt /\ new.action = "add"
    BY <2>2 DEF RefOfObstacle
  <2>7. Sound(new)'
    BY <1>3, <2>5, <2>6 DEF Sound
  <2>4. ASSUME NEW req \in Range(reqs) PROVE Sound(req)'
    <3>1. Sound(req) /\ req.ref.slot \in ObSlot
      BY RequestTypes DEF SlotInv, RequestsSound
    <3> QED
      BY <1>2, <1>3, <1>4, <3>1 DEF Sound
  <2> QED
    BY <2>3, <2>4, <2>7 DEF RequestsSound
<1> QED
  BY <1>5, <1>6, <1>7 DEF SlotInv

\* RemoveObstacle queues a request no newer than the slot it names.
LEMMA SlotRemoveObstacle ==
    ASSUME TypeOK, SlotInv, NEW ref \in ObRef, RemoveObstacle(ref)
    PROVE  SlotInv'
<1>1. ref.slot \in ObSlot /\ ref.salt \in Nat
  BY ConstantsAssumption DEF ObRef
<1>2. \A p \in ObSlot : asked[p] => asked'[p]
  BY <1>1 DEF RemoveObstacle, TypeOK
<1>3. ref.salt = obstacles[ref.slot].salt => asked'[ref.slot]
  BY <1>1 DEF RemoveObstacle, TypeOK
<1>4. UNCHANGED <<obstacles, freeObs>>
  BY DEF RemoveObstacle
<1>5. ObstacleSlotsExact' /\ SaltsBounded' /\ RemovedOnRequest'
  BY <1>2, <1>4 DEF SlotInv, ObstacleSlotsExact, SaltsBounded, RemovedOnRequest
<1>6. RequestsSound'
  <2>0. PICK new \in Request : new = [action |-> "remove", ref |-> ref]
    BY DEF Request
  <2>1. Range(reqs') = Range(reqs) \cup {new}
    BY <2>0, AppendElements DEF RemoveObstacle, TypeOK
  <2>2. obstacles[ref.slot].salt \in Nat
    BY <1>1, ConstantsAssumption DEF TypeOK, Obstacle
  <2>3. Sound(new)'
    BY <1>1, <1>3, <1>4, <2>0, <2>2 DEF Sound, RemoveObstacle, Handles
  <2>4. ASSUME NEW req \in Range(reqs) PROVE Sound(req)'
    <3>1. Sound(req) /\ req.ref.slot \in ObSlot
      BY RequestTypes DEF SlotInv, RequestsSound
    <3> QED
      BY <1>2, <1>4, <3>1 DEF Sound
  <2> QED
    BY <2>1, <2>3, <2>4 DEF RequestsSound
<1> QED
  BY <1>5, <1>6 DEF SlotInv

\* Update marks an obstacle as leaving only on a request with its own salt.
LEMMA SlotTakeRequest ==
    ASSUME TypeOK, SlotInv, TakeRequest
    PROVE  SlotInv'
<1> DEFINE req == Head(reqs)
           o == req.ref.slot
<1>1. /\ Range(reqs) = {req} \cup Range(reqs')
      /\ UNCHANGED <<freeObs, asked>>
  BY TailElements DEF TakeRequest, TypeOK
<1>2. req \in Range(reqs) /\ o \in ObSlot /\ req \in Request
  BY <1>1, RequestTypes
<1>3. Sound(req)
  BY <1>2 DEF SlotInv, RequestsSound
<1>4. obstacles \in [ObSlot -> Obstacle]
  BY DEF TypeOK
<1> HIDE DEF o
<1> SUFFICES ASSUME NEW p \in ObSlot
             PROVE  /\ obstacles'[p].salt = obstacles[p].salt
                    /\ \/ obstacles'[p].state = obstacles[p].state
                       \/ /\ obstacles'[p].state = "removing"
                          /\ obstacles[p].state # "empty"
                          /\ asked[p]
  BY <1>1, SlotFrame
<1>5. CASE obstacles' = obstacles
  BY <1>5
<1>6. ASSUME NEW touched,
             obstacles' = [obstacles EXCEPT ![o] =
                [@ EXCEPT !.touched = touched, !.pending = {}]]
      PROVE  obstacles'[p].salt = obstacles[p].salt /\ obstacles'[p].state = obstacles[p].state
  BY <1>4, <1>6 DEF Obstacle
<1>7. ASSUME RequestLive(req), req.action = "remove",
             obstacles' = [obstacles EXCEPT ![o] =
                [@ EXCEPT !.state = "removing", !.pending = {}]]
      PROVE  /\ obstacles'[p].salt = obstacles[p].salt
             /\ \/ obstacles'[p].state = obstacles[p].state
                \/ /\ obstacles'[p].state = "removing"
                   /\ obstacles[p].state # "empty"
                   /\ asked[p]
  <2>1. obstacles[o].state # "empty" /\ asked[o]
    BY <1>3, <1>7 DEF Sound, RequestLive, o
  <2>2. CASE p = o
    BY <1>2, <1>4, <1>7, <2>1, <2>2 DEF Obstacle
  <2>3. CASE p # o
    BY <1>2, <1>4, <1>7, <2>3
  <2> QED
    BY <2>2, <2>3
<1> QED
  BY <1>5, <1>6, <1>7 DEF TakeRequest, o

\* While salts have not wrapped a freed slot's salt grows.
LEMMA SlotRebuild ==
    ASSUME TypeOK, WorkToDo, SlotInv, Rebuild, ObSaltBound < ObSaltMod - 1
    PROVE  SlotInv'
<1> DEFINE ref == Head(update)
           F == FreedBy(ref)
<1>1. obstacles \in [ObSlot -> Obstacle] /\ freeObs \in Seq(ObSlot)
  BY DEF TypeOK
<1>2. /\ \A p \in ObSlot : obstacles'[p] = Settled(Drained(obstacles[p], ref))
      /\ UNCHANGED <<reqs, asked>>
  BY <1>1 DEF Rebuild
<1>3. ASSUME NEW p \in ObSlot
      PROVE  /\ Drained(obstacles[p], ref).state = obstacles[p].state
             /\ Drained(obstacles[p], ref).salt = obstacles[p].salt
             /\ Drained(obstacles[p], ref) \in Obstacle
  BY <1>1 DEF Drained, Obstacle
<1>4. ASSUME NEW p \in F
      PROVE  /\ p \in ObSlot /\ obstacles[p].state = "removing"
             /\ obstacles'[p].state = "empty"
             /\ obstacles'[p].salt = obstacles[p].salt + 1
  <2>1. /\ p \in ObSlot /\ obstacles[p].state = "removing"
        /\ Finished(Drained(obstacles[p], ref))
    BY DEF FreedBy
  <2>2. obstacles[p].salt \in 1..(ObSaltMod - 1) /\ obstacles[p].salt <= ObSaltBound
    BY <1>1, <2>1 DEF SlotInv, SaltsBounded, Obstacle
  <2>3. (obstacles[p].salt + 1) % ObSaltMod = obstacles[p].salt + 1
    BY <2>2, ConstantsAssumption
  <2>4. NextSalt(obstacles[p].salt, ObSaltMod) = obstacles[p].salt + 1
    BY <2>2, <2>3 DEF NextSalt
  <2>5. obstacles'[p] = [Drained(obstacles[p], ref) EXCEPT !.state = "empty",
                            !.salt = NextSalt(@, ObSaltMod)]
    BY <1>2, <1>3, <2>1 DEF Settled
  <2> QED
    BY <1>3, <2>1, <2>4, <2>5 DEF Obstacle
<1>5. ASSUME NEW p \in ObSlot, p \notin F
      PROVE  /\ obstacles'[p].salt = obstacles[p].salt
             /\ obstacles'[p].state = "empty" <=> obstacles[p].state = "empty"
             /\ obstacles'[p].state = "removing" => obstacles[p].state = "removing"
  <2>1. ~Finished(Drained(obstacles[p], ref)) \/ obstacles[p].state # "removing"
    BY <1>5 DEF FreedBy
  <2>2. CASE ~Finished(Drained(obstacles[p], ref))
    BY <1>2, <1>3, <2>2 DEF Settled
  <2>3. CASE Finished(Drained(obstacles[p], ref)) /\ obstacles[p].state # "removing"
    <3>1. obstacles[p].state = "processing"
      BY <1>3, <2>3 DEF Finished, InFlux
    <3>2. obstacles'[p] = [Drained(obstacles[p], ref) EXCEPT !.state = "processed"]
      BY <1>2, <1>3, <2>3, <3>1 DEF Settled
    <3> QED
      BY <1>3, <3>1, <3>2 DEF Obstacle
  <2> QED
    BY <2>1, <2>2, <2>3
<1> HIDE DEF F
<1>6. ObstacleSlotsExact'
  <2>1. PICK order \in Descending(F) : freeObs' = order \o freeObs
    BY DEF Rebuild, F
  <2>2. F \subseteq ObSlot /\ Cardinality(F) \in Nat
    <3>1. IsFiniteSet(ObSlot)
      BY FS_Interval, ConstantsAssumption DEF ObSlot
    <3>2. F \subseteq ObSlot
      BY DEF F, FreedBy
    <3> QED
      BY <3>1, <3>2, FS_Subset, FS_CardinalityType
  <2>3. order \in Seq(ObSlot) /\ Range(order) = F /\ IsInjective(order)
    <3>1. order \in [1..Cardinality(F) -> F] /\ Range(order) = F
      BY <2>1 DEF Descending
    <3>2. \A i, j \in 1..Cardinality(F) : i < j => order[i] > order[j]
      BY <2>1 DEF Descending
    <3>3. ASSUME NEW i \in 1..Cardinality(F) PROVE order[i] \in Int
      <4>1. order[i] \in ObSlot
        BY <2>2, <3>1
      <4> QED
        BY <4>1, ConstantsAssumption DEF ObSlot
    <3>4. ASSUME NEW i \in 1..Cardinality(F), NEW j \in 1..Cardinality(F), order[i] = order[j]
          PROVE  i = j
      <4>1. ~(i < j) /\ ~(j < i)
        BY <3>2, <3>3, <3>4
      <4> QED
        BY <2>2, <4>1
    <3> QED
      BY <2>2, <3>1, <3>4 DEF IsInjective
  <2>4. Range(freeObs) \cap F = {}
    BY <1>4 DEF SlotInv, ObstacleSlotsExact
  <2>5. Range(freeObs') = F \cup Range(freeObs) /\ IsInjective(freeObs')
    BY <1>1, <2>1, <2>3, <2>4, ConcatElements DEF SlotInv, ObstacleSlotsExact
  <2>6. F \cup Range(freeObs) = {p \in ObSlot : obstacles'[p].state = "empty"}
    BY <1>4, <1>5 DEF SlotInv, ObstacleSlotsExact
  <2> QED
    BY <2>5, <2>6 DEF ObstacleSlotsExact
<1>7. SaltsBounded' /\ RemovedOnRequest'
  BY <1>2, <1>4, <1>5 DEF SlotInv, SaltsBounded, RemovedOnRequest
<1>8. RequestsSound'
  <2> SUFFICES ASSUME NEW req \in Range(reqs) PROVE Sound(req)'
    BY <1>2 DEF RequestsSound
  <2>1. Sound(req) /\ req.ref.slot \in ObSlot /\ req.ref.salt \in Nat
    BY RequestTypes DEF SlotInv, RequestsSound
  <2>2. obstacles[req.ref.slot].salt \in Nat
    BY <1>1, <2>1, ConstantsAssumption DEF Obstacle
  <2>3. CASE req.ref.slot \in F
    BY <1>4, <2>1, <2>2, <2>3 DEF Sound
  <2>4. CASE req.ref.slot \notin F
    BY <1>2, <1>5, <2>1, <2>4 DEF Sound
  <2> QED
    BY <2>3, <2>4
<1> QED
  BY <1>6, <1>7, <1>8 DEF SlotInv

\* Every step preserves the strengthened slot invariant.
LEMMA SlotStep ==
    ASSUME ObSaltBound < ObSaltMod - 1
    PROVE  TypeOK /\ WorkToDo /\ SlotInv /\ [Next]_vars => SlotInv'
<1> SUFFICES ASSUME TypeOK, WorkToDo, SlotInv, [Next]_vars PROVE SlotInv'
  OBVIOUS
<1>1. ASSUME UNCHANGED <<obVars, reqs>> PROVE SlotInv'
  BY <1>1, SlotFrame DEF obVars
<1>2. ASSUME NEW o \in ObSlot, NEW ref \in TileRef, QueueTile(o, ref) PROVE SlotInv'
  <2>1. \A p \in ObSlot : /\ obstacles'[p].salt = obstacles[p].salt
                          /\ obstacles'[p].state = obstacles[p].state
    <3>1. \/ obstacles' = [obstacles EXCEPT ![o].pending = @ \cup {ref}]
          \/ obstacles' = obstacles
      BY <1>2 DEF QueueTile
    <3>2. obstacles \in [ObSlot -> Obstacle]
      BY DEF TypeOK
    <3>3. CASE obstacles' = [obstacles EXCEPT ![o].pending = @ \cup {ref}]
      BY <3>2, <3>3 DEF Obstacle
    <3> QED
      BY <3>1, <3>3
  <2> QED
    BY <1>2, <2>1, SlotFrame DEF QueueTile
<1>3. ASSUME ClientStep PROVE SlotInv'
  BY <1>1, <1>3, SlotAddObstacle, SlotRemoveObstacle
  DEF ClientStep, AddTile, RemoveTile, BuildTile
<1>4. ASSUME UpdateStep PROVE SlotInv'
  BY <1>1, <1>2, <1>4, SlotTakeRequest, SlotRebuild DEF UpdateStep, RequestsTaken
<1>5. ASSUME UpdateCall \/ UNCHANGED vars PROVE SlotInv'
  BY <1>1, <1>5 DEF UpdateCall, vars
<1> QED
  BY <1>3, <1>4, <1>5 DEF Next

\* The strengthened slot invariant holds in every reachable state.
LEMMA SlotCorrect ==
    ASSUME ObSaltBound < ObSaltMod - 1
    PROVE  Spec => [](TypeOK /\ SlotInv)
<1>1. Init => TypeOK /\ WorkToDo /\ SlotInv
  BY InitType, SlotInit DEF Init, WorkToDo
<1>2. TypeOK /\ WorkToDo /\ SlotInv /\ [Next]_vars
        => (TypeOK /\ WorkToDo /\ SlotInv)'
  BY NextType, NextWork, SlotStep
<1> QED
  BY <1>1, <1>2, PTL DEF Spec

\* No obstacle slot is lost or handed out twice, however requests, rebuilds and
\* frees interleave, as long as salts do not wrap.
THEOREM ObstacleSlots ==
    ASSUME ObSaltBound < ObSaltMod - 1
    PROVE  Spec => []ObstacleSlotsExact
<1>1. SlotInv => ObstacleSlotsExact
  BY DEF SlotInv
<1> QED
  BY <1>1, SlotCorrect, PTL

\* A removal request never takes away another obstacle than the one it was made
\* for: stale references are harmless as long as salts do not wrap.
THEOREM RemovalOnlyOnRequest ==
    ASSUME ObSaltBound < ObSaltMod - 1
    PROVE  Spec => []RemovedOnRequest
<1>1. SlotInv => RemovedOnRequest
  BY DEF SlotInv
<1> QED
  BY <1>1, SlotCorrect, PTL

----------------------------------------------------------------------------
(* Tile slots *)

\* Tile slots are exact at the start.
LEMMA TileInit == Init => TileSlotsExact
  BY ConstantsAssumption DEF Init, TileSlotsExact, IsInjective, Range, TileSlot

\* A sequence of one element holds it, once.
LEMMA OneElement ==
    ASSUME NEW S, NEW e \in S
    PROVE  <<e>> \in Seq(S) /\ Range(<<e>>) = {e} /\ IsInjective(<<e>>)
<1>1. <<e>> \in Seq(S) /\ DOMAIN <<e>> = 1..1 /\ <<e>>[1] = e
  OBVIOUS
<1>2. \A x \in DOMAIN <<e>> : x = 1
  BY <1>1
<1> QED
  BY <1>1, <1>2 DEF Range, IsInjective

\* AddTile takes a slot that is free for a location that has no tile.
LEMMA TileAdd ==
    ASSUME TypeOK, TileSlotsExact, NEW l \in Loc, AddTile(l)
    PROVE  TileSlotsExact'
<1> DEFINE i == Head(freeTiles)
<1>1. /\ i \in TileSlot
      /\ Range(freeTiles) = {i} \cup Range(freeTiles')
      /\ IsInjective(freeTiles') /\ i \notin Range(freeTiles')
  BY TailElements, HeadTailType DEF AddTile, TypeOK, TileSlotsExact
<1>2. l \in Loc /\ l[1] \in Cells /\ l # NoLoc
  BY ConstantsAssumption DEF Loc
<1>3. /\ tiles[i].loc = NoLoc
      /\ tiles'[i].loc = l
      /\ \A j \in TileSlot : j # i => tiles'[j] = tiles[j]
  BY <1>1 DEF AddTile, TypeOK, TileSlotsExact
<1>4. \A c \in Cells : posLookup'[c] = IF c = l[1] THEN posLookup[c] \cup {i} ELSE posLookup[c]
  BY <1>2 DEF AddTile, TypeOK
<1>5. \A j \in TileSlot : tiles[j].loc # l
  BY <1>2 DEF AddTile, GetTileAt, TileSlotsExact
<1> HIDE DEF i
<1>6. Range(freeTiles') = {j \in TileSlot : tiles'[j].loc = NoLoc}
  BY <1>1, <1>2, <1>3 DEF TileSlotsExact
<1>7. \A c \in Cells, j \in TileSlot :
          j \in posLookup'[c] <=> tiles'[j].loc # NoLoc /\ tiles'[j].loc[1] = c
  <2> SUFFICES ASSUME NEW c \in Cells, NEW j \in TileSlot
               PROVE  j \in posLookup'[c] <=> tiles'[j].loc # NoLoc /\ tiles'[j].loc[1] = c
    OBVIOUS
  <2>1. j \in posLookup[c] <=> tiles[j].loc # NoLoc /\ tiles[j].loc[1] = c
    BY DEF TileSlotsExact
  <2>2. CASE j = i
    BY <1>2, <1>3, <1>4, <2>1, <2>2
  <2>3. CASE j # i
    BY <1>3, <1>4, <2>1, <2>3
  <2> QED
    BY <2>2, <2>3
<1>8. \A j, k \in TileSlot :
          tiles'[j].loc = tiles'[k].loc /\ tiles'[j].loc # NoLoc => j = k
  BY <1>1, <1>2, <1>3, <1>5 DEF TileSlotsExact
<1> QED
  BY <1>1, <1>6, <1>7, <1>8 DEF TileSlotsExact

\* RemoveTile gives back a slot that is in use, and unlinks it.
LEMMA TileRemove ==
    ASSUME TypeOK, TileSlotsExact, NEW ref \in TileRef, RemoveTile(ref)
    PROVE  TileSlotsExact'
<1> DEFINE i == ref.slot
<1>1. i \in TileSlot /\ ref.salt \in Nat /\ tiles[i].salt = ref.salt
  BY ConstantsAssumption DEF TileRef, RemoveTile, ValidTile
<1>2. tiles[i].loc # NoLoc
  BY <1>1 DEF RemoveTile, TileHandles
<1>3. tiles[i].loc \in Loc /\ tiles[i].loc[1] \in Cells
  BY <1>1, <1>2 DEF TypeOK, Loc
<1>4. /\ tiles'[i].loc = NoLoc
      /\ \A j \in TileSlot : j # i => tiles'[j] = tiles[j]
  BY <1>1 DEF RemoveTile, TypeOK
<1>5. \A c \in Cells : posLookup'[c] = IF c = tiles[i].loc[1] THEN posLookup[c] \ {i}
                                       ELSE posLookup[c]
  BY <1>3 DEF RemoveTile, TypeOK, Unlinked
<1>6. i \notin Range(freeTiles)
  BY <1>2 DEF TileSlotsExact
<1>7. /\ Range(freeTiles') = {i} \cup Range(freeTiles)
      /\ IsInjective(freeTiles')
  <2>1. <<i>> \in Seq(TileSlot) /\ Range(<<i>>) = {i} /\ IsInjective(<<i>>)
    BY <1>1, OneElement
  <2>2. freeTiles' = <<i>> \o freeTiles /\ freeTiles \in Seq(TileSlot)
    BY DEF RemoveTile, TypeOK
  <2>3. IsInjective(freeTiles) /\ Range(<<i>>) \cap Range(freeTiles) = {}
    BY <1>6, <2>1 DEF TileSlotsExact
  <2>4. /\ Range(<<i>> \o freeTiles) = Range(<<i>>) \cup Range(freeTiles)
        /\ IsInjective(<<i>> \o freeTiles)
    <3> DEFINE one == <<i>>
    <3>1. one \in Seq(TileSlot) /\ freeTiles \in Seq(TileSlot) /\ IsInjective(one)
      BY <2>1, <2>2
    <3>2. IsInjective(freeTiles) /\ Range(one) \cap Range(freeTiles) = {}
      BY <2>3
    <3> HIDE DEF one
    <3>3. /\ Range(one \o freeTiles) = Range(one) \cup Range(freeTiles)
          /\ IsInjective(one \o freeTiles)
      BY <3>1, <3>2, ConcatElements
    <3> QED
      BY <3>3 DEF one
  <2> QED
    BY <2>1, <2>2, <2>4
<1> HIDE DEF i
<1>8. Range(freeTiles') = {j \in TileSlot : tiles'[j].loc = NoLoc}
  BY <1>1, <1>4, <1>7 DEF TileSlotsExact
<1>9. \A c \in Cells, j \in TileSlot :
          j \in posLookup'[c] <=> tiles'[j].loc # NoLoc /\ tiles'[j].loc[1] = c
  <2> SUFFICES ASSUME NEW c \in Cells, NEW j \in TileSlot
               PROVE  j \in posLookup'[c] <=> tiles'[j].loc # NoLoc /\ tiles'[j].loc[1] = c
    OBVIOUS
  <2>1. j \in posLookup[c] <=> tiles[j].loc # NoLoc /\ tiles[j].loc[1] = c
    BY DEF TileSlotsExact
  <2>2. CASE j = i
    BY <1>2, <1>4, <1>5, <2>1, <2>2
  <2>3. CASE j # i
    BY <1>4, <1>5, <2>1, <2>3
  <2> QED
    BY <2>2, <2>3
<1>10. \A j, k \in TileSlot :
          tiles'[j].loc = tiles'[k].loc /\ tiles'[j].loc # NoLoc => j = k
  BY <1>1, <1>4 DEF TileSlotsExact
<1> QED
  BY <1>7, <1>8, <1>9, <1>10 DEF TileSlotsExact

\* Only AddTile and RemoveTile touch the tiles.
LEMMA TileFrame ==
    ASSUME [Next]_vars
    PROVE  \/ UNCHANGED tileVars
           \/ \E l \in Loc : AddTile(l)
           \/ \E ref \in TileRef : RemoveTile(ref)
  BY DEF Next, ClientStep, UpdateStep, AddObstacle, RemoveObstacle, BuildTile,
         UpdateCall, TakeRequest, QueueTile, RequestsTaken, Rebuild, vars

\* Tile slots are neither lost nor used twice, chains hold exactly the tiles of
\* their cell, and no two tiles lie at one location (AddTile, RemoveTile).
THEOREM TileSlots == Spec => []TileSlotsExact
<1>1. TypeOK /\ TileSlotsExact /\ [Next]_vars => TileSlotsExact'
  <2> SUFFICES ASSUME TypeOK, TileSlotsExact, [Next]_vars PROVE TileSlotsExact'
    OBVIOUS
  <2>1. CASE UNCHANGED tileVars
    BY <2>1 DEF TileSlotsExact, tileVars
  <2> QED
    BY <2>1, TileFrame, TileAdd, TileRemove
<1> QED
  BY <1>1, TileInit, TypeCorrect, PTL DEF Spec

----------------------------------------------------------------------------
(* References to tiles that are kept somewhere.                             *)
(*                                                                          *)
(* The update queue, the touched lists and the tiles built name tiles that  *)
(* were handed out.  While salts have not wrapped, which TileSaltBound      *)
(* provides, they name a present tile or none: never a later user of a slot. *)

KnownTiles ==
    /\ built \subseteq TileHandles
    /\ Range(update) \subseteq TileHandles
    /\ \A o \in ObSlot : todo[o] \subseteq TileHandles /\ obstacles[o].touched \subseteq TileHandles
BuiltInUse == \A ref \in built : tiles[ref.slot].salt = ref.salt
TodoPhase == pc # "requests" => \A o \in ObSlot : todo[o] = {}

KnownInv == TileSlotsExact /\ KnownTiles /\ BuiltInUse /\ TodoPhase

\* A reference once handed out stays one that was handed out.
LEMMA HandlesGrow ==
    ASSUME TypeOK, [Next]_vars, TileSaltBound < TileSaltMod - 1
    PROVE  TileHandles \subseteq TileHandles'
<1> SUFFICES ASSUME NEW r \in TileHandles PROVE r \in TileHandles'
  OBVIOUS
<1>0. r \in TileRef /\ r.slot \in TileSlot /\ r.salt \in Nat
  BY ConstantsAssumption DEF TileHandles, TileRef
<1>1. CASE UNCHANGED tileVars
  BY <1>1 DEF tileVars, TileHandles
<1>2. ASSUME NEW l \in Loc, AddTile(l) PROVE r \in TileHandles'
  <2>1. l # NoLoc /\ Head(freeTiles) \in TileSlot
    BY <1>2, ConstantsAssumption, HeadTailType DEF AddTile, TypeOK
  <2>2. /\ tiles'[r.slot].salt = tiles[r.slot].salt
        /\ tiles[r.slot].loc # NoLoc => tiles'[r.slot].loc # NoLoc
    BY <1>0, <1>2, <2>1 DEF AddTile, TypeOK
  <2> QED
    BY <1>0, <2>2 DEF TileHandles
<1>3. ASSUME NEW ref \in TileRef, RemoveTile(ref) PROVE r \in TileHandles'
  <2>1. /\ ref.slot \in TileSlot /\ ref.salt \in Nat
        /\ tiles[ref.slot].salt = ref.salt
        /\ ref.salt + 1 < TileSaltMod
    BY <1>3, ConstantsAssumption DEF TileRef, RemoveTile, ValidTile
  <2>2. NextSalt(ref.salt, TileSaltMod) = ref.salt + 1
    BY <2>1, ConstantsAssumption DEF NextSalt
  <2>3. CASE r.slot = ref.slot
    <3>1. tiles'[r.slot].salt = ref.salt + 1
      BY <1>3, <2>1, <2>2, <2>3 DEF RemoveTile, TypeOK
    <3>2. r.salt <= ref.salt
      BY <1>0, <2>1, <2>3 DEF TileHandles
    <3>3. r.salt < tiles'[r.slot].salt
      BY <1>0, <2>1, <3>1, <3>2
    <3> QED
      BY <1>0, <3>3 DEF TileHandles
  <2>4. CASE r.slot # ref.slot
    <3>1. tiles'[r.slot] = tiles[r.slot]
      BY <1>0, <1>3, <2>4 DEF RemoveTile, TypeOK
    <3> QED
      BY <1>0, <3>1 DEF TileHandles
  <2> QED
    BY <2>3, <2>4
<1> QED
  BY <1>1, <1>2, <1>3, TileFrame

\* QueryTiles finds present tiles.
LEMMA HitTilesKnown ==
    ASSUME TypeOK, NEW shape \in Shapes, NEW touched \in QueryTiles(shape)
    PROVE  touched \subseteq TileHandles
<1>1. TilesHit(shape) \subseteq TileHandles
  <2> SUFFICES ASSUME NEW i \in UNION Range(posLookup), tiles[i].loc \in Hits[shape]
               PROVE  RefOfTile(i) \in TileHandles
    BY DEF TilesHit
  <2>1. i \in TileSlot
    BY DEF TypeOK, Range
  <2>2. tiles[i].loc # NoLoc
    BY ConstantsAssumption
  <2>3. RefOfTile(i) \in TileRef
    BY <2>1 DEF RefOfTile, TileRef, TypeOK
  <2> QED
    BY <2>2, <2>3 DEF TileHandles, RefOfTile
<1> QED
  BY <1>1 DEF QueryTiles

\* What the rebuild does to an obstacle leaves its touched tiles alone.
LEMMA SettledTouched ==
    ASSUME NEW ob \in Obstacle, NEW ref
    PROVE  /\ Settled(Drained(ob, ref)).touched = ob.touched
           /\ Settled(Drained(ob, ref)).shape = ob.shape
<1> DEFINE d == Drained(ob, ref)
<1>1. d \in [salt : 1..(ObSaltMod - 1),
             state : {"empty", "processing", "processed", "removing"},
             shape : Shapes, touched : SUBSET TileRef, pending : SUBSET TileRef]
      /\ d.touched = ob.touched /\ d.shape = ob.shape
  BY DEF Drained, Obstacle
<1> HIDE DEF d
<1>2. Settled(d).touched = d.touched /\ Settled(d).shape = d.shape
  BY <1>1 DEF Settled
<1> QED
  BY <1>1, <1>2 DEF d

\* A rebuild that succeeds, and only it, adds its tile to those built.
LEMMA RebuiltTiles ==
    ASSUME NEW ref, NEW outcome, BuildNavMeshTile(ref, outcome)
    PROVE  /\ built' \subseteq built \cup {ref}
           /\ ref \in built' <=> outcome = "ok"
           /\ outcome = "ok" => tiles[ref.slot].salt = ref.salt
  BY DEF BuildNavMeshTile, Outcomes, ValidTile

\* References of tiles are known at the start, for there are none.
LEMMA KnownInit == Init => KnownInv
<1> SUFFICES ASSUME Init PROVE KnownInv
  OBVIOUS
<1>1. TileSlotsExact
  BY TileInit
<1>2. KnownTiles
  BY DEF Init, KnownTiles, Range
<1>3. BuiltInUse /\ TodoPhase
  BY DEF Init, BuiltInUse, TodoPhase
<1> QED
  BY <1>1, <1>2, <1>3 DEF KnownInv

\* What is kept stays known as long as it only gains known tiles.
LEMMA KnownFrame ==
    ASSUME KnownTiles, TileHandles \subseteq TileHandles',
           built' \subseteq TileHandles, Range(update') \subseteq TileHandles,
           \A o \in ObSlot : todo'[o] \subseteq TileHandles /\ obstacles'[o].touched \subseteq TileHandles
    PROVE  KnownTiles'
  BY DEF KnownTiles

\* No step keeps a reference that was not handed out.
LEMMA KnownStep ==
    ASSUME TypeOK, WorkToDo, KnownInv, [Next]_vars, TileSaltBound < TileSaltMod - 1
    PROVE  KnownTiles'
<1> DEFINE Goal == /\ built' \subseteq TileHandles /\ Range(update') \subseteq TileHandles
                   /\ \A o \in ObSlot : /\ todo'[o] \subseteq TileHandles
                                       /\ obstacles'[o].touched \subseteq TileHandles
<1> SUFFICES Goal
  BY HandlesGrow, KnownFrame DEF KnownInv
<1>0. /\ built \subseteq TileHandles /\ Range(update) \subseteq TileHandles
      /\ \A o \in ObSlot : /\ todo[o] \subseteq TileHandles
                          /\ obstacles[o].touched \subseteq TileHandles
  BY DEF KnownInv, KnownTiles
<1>t. /\ obstacles \in [ObSlot -> Obstacle] /\ todo \in [ObSlot -> SUBSET TileRef]
      /\ freeObs \in Seq(ObSlot) /\ update \in Seq(TileRef)
  BY DEF TypeOK
<1>1. CASE UNCHANGED <<update, todo, obstacles, built>>
  BY <1>0, <1>1
<1>2. ASSUME NEW l \in Loc, AddTile(l) PROVE Goal
  BY <1>1, <1>2 DEF AddTile, obVars
<1>3. ASSUME NEW ref \in TileRef, RemoveTile(ref) PROVE Goal
  BY <1>0, <1>3 DEF RemoveTile, obVars
<1>4. ASSUME NEW shape \in Shapes, AddObstacle(shape) PROVE Goal
  <2>1. \A o \in ObSlot : obstacles'[o].touched \in {{}, obstacles[o].touched}
    BY <1>4, <1>t DEF AddObstacle
  <2>2. UNCHANGED <<update, todo, built>>
    BY <1>4 DEF AddObstacle
  <2> QED
    BY <1>0, <2>1, <2>2
<1>5. ASSUME NEW ref \in ObRef, RemoveObstacle(ref) PROVE Goal
  BY <1>1, <1>5 DEF RemoveObstacle
<1>6. ASSUME NEW ref \in TileRef, BuildTile(ref) PROVE Goal
  <2>1. built' \subseteq built \cup {ref} /\ ref \in TileHandles
        /\ UNCHANGED <<update, todo, obstacles>>
    BY <1>6, RebuiltTiles DEF BuildTile, obVars
  <2> QED
    BY <1>0, <2>1
<1>7. CASE UpdateCall \/ RequestsTaken
  BY <1>1, <1>7 DEF UpdateCall, RequestsTaken, obVars
<1>8. CASE TakeRequest
  <2> DEFINE req == Head(reqs)
             o == req.ref.slot
  <2>1. req \in Range(reqs) /\ o \in ObSlot
    <3>1. Range(reqs) = {req} \cup Range(Tail(reqs))
      BY <1>8, TailElements DEF TakeRequest, TypeOK
    <3> QED
      BY <3>1, RequestTypes
  <2>2. UNCHANGED <<update, built>>
    BY <1>8 DEF TakeRequest
  <2> HIDE DEF o
  <2>3. CASE UNCHANGED <<obstacles, todo>>
    BY <1>1, <2>2, <2>3
  <2>4. ASSUME NEW touched \in QueryTiles(obstacles[o].shape),
               obstacles' = [obstacles EXCEPT ![o] =
                       [@ EXCEPT !.touched = touched, !.pending = {}]],
               todo' = [todo EXCEPT ![o] = touched]
        PROVE  Goal
    <3>1. touched \subseteq TileHandles
      BY <1>t, <2>1, <2>4, HitTilesKnown DEF Obstacle
    <3>2. \A p \in ObSlot : /\ obstacles'[p].touched \in {touched, obstacles[p].touched}
                           /\ todo'[p] \in {touched, todo[p]}
      BY <1>t, <2>4 DEF Obstacle
    <3> QED
      BY <1>0, <2>2, <3>1, <3>2
  <2>5. ASSUME obstacles' = [obstacles EXCEPT ![o] =
                  [@ EXCEPT !.state = "removing", !.pending = {}]],
               todo' = [todo EXCEPT ![o] = obstacles[o].touched]
        PROVE  Goal
    <3>1. \A p \in ObSlot : /\ obstacles'[p].touched = obstacles[p].touched
                           /\ todo'[p] \in {obstacles[p].touched, todo[p]}
      BY <1>t, <2>5 DEF Obstacle
    <3> QED
      BY <1>0, <2>2, <3>1
  <2> QED
    BY <1>8, <2>3, <2>4, <2>5 DEF TakeRequest, o
<1>9. ASSUME NEW o \in ObSlot, NEW ref \in TileRef, QueueTile(o, ref) PROVE Goal
  <2>1. Range(update') \subseteq Range(update) \cup {ref}
    BY <1>9, <1>t, AppendElements DEF QueueTile
  <2>2. ref \in TileHandles /\ built' = built
    BY <1>0, <1>9 DEF QueueTile
  <2>3. \A p \in ObSlot : todo'[p] \subseteq todo[p]
    BY <1>9, <1>t DEF QueueTile
  <2>4. \A p \in ObSlot : obstacles'[p].touched = obstacles[p].touched
    BY <1>9, <1>t DEF QueueTile, Obstacle
  <2> QED
    BY <1>0, <2>1, <2>2, <2>3, <2>4
<1>10. CASE Rebuild
  <2> DEFINE ref == Head(update)
  <2>1. update # <<>>
    BY <1>10 DEF WorkToDo, Rebuild
  <2>2. ref \in Range(update) /\ Range(Tail(update)) \subseteq Range(update)
    BY <1>t, <2>1, TailElements
  <2>3. built' \subseteq built \cup {ref} /\ update' = Tail(update) /\ todo' = todo
    BY <1>10, RebuiltTiles DEF Rebuild, Dequeued
  <2>4. \A p \in ObSlot : obstacles'[p].touched = obstacles[p].touched
    BY <1>10, <1>t, SettledTouched DEF Rebuild
  <2> QED
    BY <1>0, <2>2, <2>3, <2>4
<1>11. CASE UNCHANGED vars
  BY <1>1, <1>11 DEF vars, obVars
<1> QED
  BY <1>2, <1>3, <1>4, <1>5, <1>6, <1>7, <1>8, <1>9, <1>10, <1>11
     DEF Next, ClientStep, UpdateStep

\* A tile counts as built only under its present reference.
LEMMA BuiltStep ==
    ASSUME TypeOK, KnownInv, [Next]_vars
    PROVE  BuiltInUse'
<1> SUFFICES ASSUME NEW r \in built' PROVE tiles'[r.slot].salt = r.salt
  BY DEF BuiltInUse
<1>0. \A s \in built : /\ tiles[s.slot].salt = s.salt
                       /\ tiles[s.slot].loc # NoLoc
                       /\ s.slot \in TileSlot /\ s.salt \in Nat
  BY ConstantsAssumption DEF KnownInv, KnownTiles, BuiltInUse, TileHandles, TileRef
<1>1. CASE UNCHANGED <<tileVars, built>>
  BY <1>0, <1>1 DEF tileVars
<1>2. ASSUME NEW l \in Loc, AddTile(l) PROVE tiles'[r.slot].salt = r.salt
  <2>1. r \in built
    BY <1>2 DEF AddTile
  <2>2. tiles'[r.slot].salt = tiles[r.slot].salt
    BY <1>0, <1>2, <2>1 DEF AddTile, TypeOK
  <2> QED
    BY <1>0, <2>1, <2>2
<1>3. ASSUME NEW ref \in TileRef, RemoveTile(ref) PROVE tiles'[r.slot].salt = r.salt
  <2>1. r \in built /\ r # ref /\ tiles[ref.slot].salt = ref.salt
    BY <1>3 DEF RemoveTile, ValidTile
  <2>2. r \in TileRef /\ ref.slot \in TileSlot
    BY <2>1 DEF KnownInv, KnownTiles, TileHandles, TileRef
  <2>3. r.slot # ref.slot
    BY <1>0, <2>1, <2>2 DEF TileRef
  <2>4. tiles'[r.slot] = tiles[r.slot]
    BY <1>3, <2>2, <2>3 DEF RemoveTile, TypeOK, TileRef
  <2> QED
    BY <1>0, <2>1, <2>4
<1>4. ASSUME NEW ref, NEW outcome, BuildNavMeshTile(ref, outcome), UNCHANGED tileVars
      PROVE  tiles'[r.slot].salt = r.salt
  BY <1>0, <1>4, RebuiltTiles DEF tileVars
<1>5. CASE Rebuild
  BY <1>4, <1>5 DEF Rebuild
<1>6. ASSUME NEW ref \in TileRef, BuildTile(ref) PROVE tiles'[r.slot].salt = r.salt
  BY <1>4, <1>6 DEF BuildTile
<1> QED
  BY <1>1, <1>2, <1>3, <1>5, <1>6
     DEF Next, ClientStep, UpdateStep, AddObstacle, RemoveObstacle,
         UpdateCall, TakeRequest, QueueTile, RequestsTaken, vars

\* The request loop is left only when no touched tile is left to queue.
LEMMA TodoStep == TodoPhase /\ [Next]_vars => TodoPhase'
  BY DEF TodoPhase, Next, ClientStep, UpdateStep, AddTile, RemoveTile, AddObstacle,
         RemoveObstacle, BuildTile, UpdateCall, TakeRequest, QueueTile,
         RequestsTaken, Rebuild, vars

\* References kept in the tile cache name present tiles or none.
LEMMA KnownCorrect ==
    ASSUME TileSaltBound < TileSaltMod - 1
    PROVE  Spec => [](TypeOK /\ WorkToDo /\ KnownInv)
<1>1. Init => TypeOK /\ WorkToDo /\ KnownInv
  BY InitType, KnownInit DEF Init, WorkToDo
<1>2. TypeOK /\ WorkToDo /\ KnownInv /\ [Next]_vars => (TypeOK /\ WorkToDo /\ KnownInv)'
  <2> SUFFICES ASSUME TypeOK, WorkToDo, KnownInv, [Next]_vars
               PROVE  (TypeOK /\ WorkToDo /\ KnownInv)'
    OBVIOUS
  <2>1. TileSlotsExact'
    <3>1. CASE UNCHANGED tileVars
      BY <3>1 DEF KnownInv, TileSlotsExact, tileVars
    <3> QED
      BY <3>1, TileFrame, TileAdd, TileRemove DEF KnownInv
  <2>2. KnownTiles' /\ BuiltInUse' /\ TodoPhase'
    BY KnownStep, BuiltStep, TodoStep DEF KnownInv
  <2> QED
    BY <2>1, <2>2, NextType, NextWork DEF KnownInv
<1> QED
  BY <1>1, <1>2, PTL DEF Spec

----------------------------------------------------------------------------
(* Requests to add an obstacle meet it as AddObstacle left it *)

FreshAdd(k) ==
    /\ reqs[k].action = "add"
    /\ obstacles[reqs[k].ref.slot].salt = reqs[k].ref.salt

\* A queued addition that still has its obstacle is the only one, and finds it
\* without touched tiles.
AddsFresh ==
    \A k \in DOMAIN reqs : FreshAdd(k) =>
        /\ obstacles[reqs[k].ref.slot].touched = {}
        /\ \A j \in DOMAIN reqs : reqs[j] = reqs[k] => j = k

\* What a rebuild makes of an obstacle: its slot is freed under a new salt, or
\* it keeps slot, salt and whether it is leaving.
LEMMA RebuiltObstacle ==
    ASSUME TypeOK, SlotInv, Rebuild, ObSaltBound < ObSaltMod - 1, NEW p \in ObSlot
    PROVE  /\ obstacles'[p].touched = obstacles[p].touched
           /\ obstacles'[p].shape = obstacles[p].shape
           /\ \/ /\ obstacles[p].state = "removing"
                 /\ obstacles[p].pending \ {Head(update)} = {}
                 /\ obstacles'[p].state = "empty"
                 /\ obstacles'[p].salt = obstacles[p].salt + 1
              \/ /\ obstacles'[p].salt = obstacles[p].salt
                 /\ obstacles'[p].state = "removing" <=> obstacles[p].state = "removing"
                 /\ obstacles'[p].state = "empty" <=> obstacles[p].state = "empty"
                 /\ obstacles[p].state = "removing" =>
                       obstacles'[p].pending = obstacles[p].pending \ {Head(update)}
<1> DEFINE ob == obstacles[p]
           ref == Head(update)
           d == Drained(ob, ref)
<1>1. ob \in Obstacle
  BY DEF TypeOK
<1>2. obstacles'[p] = Settled(d)
  BY DEF Rebuild
<1>3. /\ d \in Obstacle /\ d.state = ob.state /\ d.salt = ob.salt
      /\ ob.state = "removing" => d.pending = ob.pending \ {ref}
  BY <1>1 DEF Drained, InFlux, Obstacle
<1>4. Settled(d).touched = ob.touched /\ Settled(d).shape = ob.shape
  BY <1>1, SettledTouched
<1> HIDE DEF d
<1>5. CASE ~Finished(d)
  BY <1>2, <1>3, <1>4, <1>5 DEF Settled
<1>6. CASE Finished(d) /\ d.state = "processing"
  <2>1. Settled(d) = [d EXCEPT !.state = "processed"]
    BY <1>6 DEF Settled
  <2>2. Settled(d).state = "processed" /\ Settled(d).salt = d.salt
    BY <1>3, <2>1 DEF Obstacle
  <2> QED
    BY <1>2, <1>3, <1>4, <1>6, <2>2
<1>7. CASE Finished(d) /\ d.state = "removing"
  <2>1. ob.salt \in 1..(ObSaltMod - 1) /\ ob.salt <= ObSaltBound
    BY <1>1, <1>3, <1>7 DEF SlotInv, SaltsBounded, Obstacle
  <2>2. (ob.salt + 1) % ObSaltMod = ob.salt + 1
    BY <2>1, ConstantsAssumption
  <2>3. NextSalt(ob.salt, ObSaltMod) = ob.salt + 1
    BY <2>1, <2>2 DEF NextSalt
  <2>4. Settled(d) = [d EXCEPT !.state = "empty", !.salt = NextSalt(@, ObSaltMod)]
    BY <1>7 DEF Settled
  <2>5. Settled(d).state = "empty" /\ Settled(d).salt = ob.salt + 1
    BY <1>3, <2>3, <2>4 DEF Obstacle
  <2>6. ob.pending \ {ref} = {}
    BY <1>3, <1>7 DEF Finished
  <2> QED
    BY <1>2, <1>3, <1>4, <1>7, <2>5, <2>6
<1> QED
  BY <1>3, <1>5, <1>6, <1>7 DEF Finished, InFlux

\* A request that has its obstacle still finds it in use.
LEMMA LiveInUse ==
    ASSUME TypeOK, SlotInv, NEW k \in DOMAIN reqs
    PROVE  /\ reqs[k] \in Request /\ reqs[k].ref.slot \in ObSlot /\ reqs[k].ref.salt \in Nat
           /\ obstacles[reqs[k].ref.slot].salt \in Nat
           /\ reqs[k].ref.salt <= obstacles[reqs[k].ref.slot].salt
           /\ obstacles[reqs[k].ref.slot].salt = reqs[k].ref.salt
                => obstacles[reqs[k].ref.slot].state # "empty"
<1>1. reqs[k] \in Range(reqs)
  BY DEF Range
<1>2. reqs[k] \in Request /\ reqs[k].ref.slot \in ObSlot /\ reqs[k].ref.salt \in Nat
  BY <1>1, RequestTypes
<1>3. obstacles[reqs[k].ref.slot].salt \in Nat
  BY <1>2, ConstantsAssumption DEF TypeOK, Obstacle
<1> QED
  BY <1>1, <1>2, <1>3 DEF SlotInv, RequestsSound, Sound

\* Steps that keep the requests and the touched tiles of their obstacles.
LEMMA AddsFrame ==
    ASSUME AddsFresh, UNCHANGED reqs,
           \A k \in DOMAIN reqs :
              obstacles'[reqs[k].ref.slot].salt = reqs[k].ref.salt =>
                /\ obstacles[reqs[k].ref.slot].salt = reqs[k].ref.salt
                /\ obstacles'[reqs[k].ref.slot].touched = obstacles[reqs[k].ref.slot].touched
    PROVE  AddsFresh'
  BY DEF AddsFresh, FreshAdd

\* AddObstacle queues the one addition of its obstacle.
LEMMA AddsAddObstacle ==
    ASSUME TypeOK, SlotInv, AddsFresh, NEW shape \in Shapes, AddObstacle(shape)
    PROVE  AddsFresh'
<1> DEFINE o == Head(freeObs)
           new == [action |-> "add", ref |-> RefOfObstacle(o)]
<1>1. o \in ObSlot /\ Range(freeObs) = {o} \cup Range(freeObs')
  BY HeadTailType, TailElements DEF AddObstacle, TypeOK
<1>2. obstacles[o].state = "empty"
  BY <1>1 DEF SlotInv, ObstacleSlotsExact
<1>3. /\ obstacles'[o].touched = {} /\ obstacles'[o].salt = obstacles[o].salt
      /\ \A p \in ObSlot : p # o => obstacles'[p] = obstacles[p]
  BY <1>1 DEF AddObstacle, TypeOK
<1>4. /\ reqs \in Seq(Request) /\ new \in Request
      /\ reqs' = Append(reqs, new)
  BY <1>1 DEF TypeOK, AddObstacle, Request, RefOfObstacle, ObRef, Obstacle
<1>5. new.ref.slot = o /\ new.ref.salt = obstacles[o].salt
  BY DEF RefOfObstacle
<1> HIDE DEF o, new
<1>6. /\ DOMAIN reqs = 1..Len(reqs) /\ DOMAIN reqs' = 1..(Len(reqs) + 1) /\ Len(reqs) \in Nat
      /\ \A k \in 1..Len(reqs) : reqs'[k] = reqs[k]
      /\ reqs'[Len(reqs) + 1] = new
  BY <1>4
<1>7. ASSUME NEW k \in DOMAIN reqs, obstacles[reqs[k].ref.slot].salt = reqs[k].ref.salt
      PROVE  reqs[k].ref.slot # o
  BY <1>2, <1>7, LiveInUse
<1>8. \A k \in DOMAIN reqs : reqs[k] # new
  BY <1>5, <1>7
<1> SUFFICES ASSUME NEW k \in DOMAIN reqs', FreshAdd(k)'
             PROVE  /\ obstacles'[reqs'[k].ref.slot].touched = {}
                    /\ \A j \in DOMAIN reqs' : reqs'[j] = reqs'[k] => j = k
  BY DEF AddsFresh
<1>9. CASE k = Len(reqs) + 1
  BY <1>3, <1>5, <1>6, <1>8, <1>9
<1>10. CASE k \in 1..Len(reqs)
  <2>1. reqs'[k] = reqs[k] /\ k \in DOMAIN reqs /\ reqs[k].ref.slot \in ObSlot
    BY <1>6, <1>10, LiveInUse
  <2>2. obstacles[reqs[k].ref.slot].salt = reqs[k].ref.salt /\ reqs[k].action = "add"
    BY <1>3, <2>1 DEF FreshAdd
  <2>3. obstacles'[reqs[k].ref.slot] = obstacles[reqs[k].ref.slot]
    BY <1>3, <1>7, <2>1, <2>2
  <2>4. /\ obstacles[reqs[k].ref.slot].touched = {}
        /\ \A j \in DOMAIN reqs : reqs[j] = reqs[k] => j = k
    BY <2>1, <2>2 DEF AddsFresh, FreshAdd
  <2> QED
    BY <1>6, <1>8, <2>1, <2>3, <2>4
<1> QED
  BY <1>6, <1>9, <1>10

\* RemoveObstacle queues no addition.
LEMMA AddsRemoveObstacle ==
    ASSUME TypeOK, AddsFresh, NEW ref \in ObRef, RemoveObstacle(ref)
    PROVE  AddsFresh'
<1> DEFINE new == [action |-> "remove", ref |-> ref]
<1>1. reqs \in Seq(Request) /\ new \in Request /\ reqs' = Append(reqs, new)
  BY DEF TypeOK, RemoveObstacle, Request
<1>2. new.action = "remove"
  OBVIOUS
<1> HIDE DEF new
<1>3. /\ DOMAIN reqs = 1..Len(reqs) /\ DOMAIN reqs' = 1..(Len(reqs) + 1) /\ Len(reqs) \in Nat
      /\ \A k \in 1..Len(reqs) : reqs'[k] = reqs[k]
      /\ reqs'[Len(reqs) + 1] = new
  BY <1>1
<1>4. obstacles' = obstacles
  BY DEF RemoveObstacle
<1> SUFFICES ASSUME NEW k \in DOMAIN reqs', FreshAdd(k)'
             PROVE  /\ obstacles'[reqs'[k].ref.slot].touched = {}
                    /\ \A j \in DOMAIN reqs' : reqs'[j] = reqs'[k] => j = k
  BY DEF AddsFresh
<1>5. k \in 1..Len(reqs) /\ reqs'[k] = reqs[k] /\ k \in DOMAIN reqs /\ FreshAdd(k)
  BY <1>2, <1>3, <1>4 DEF FreshAdd
<1>6. /\ obstacles[reqs[k].ref.slot].touched = {}
      /\ \A j \in DOMAIN reqs : reqs[j] = reqs[k] => j = k
  BY <1>5 DEF AddsFresh
<1>7. \A j \in DOMAIN reqs' : j \in DOMAIN reqs \/ reqs'[j] = new
  BY <1>3
<1>8. reqs[k].action = "add"
  BY <1>5 DEF FreshAdd
<1> QED
  BY <1>2, <1>3, <1>4, <1>5, <1>6, <1>7, <1>8

\* What the request loop does with the first request: nothing, if it is for an
\* obstacle that is gone; else the obstacle's touched tiles are its tiles to do.
LEMMA TakenRequest ==
    ASSUME TypeOK, TakeRequest
    PROVE  LET req == reqs[1]
               o == reqs[1].ref.slot IN
           /\ 1 \in DOMAIN reqs /\ req \in Request /\ o \in ObSlot
           /\ \A p \in ObSlot : /\ obstacles'[p].salt = obstacles[p].salt
                                /\ obstacles'[p].shape = obstacles[p].shape
                                /\ todo[p] = {}
                                /\ p # o => obstacles'[p] = obstacles[p] /\ todo'[p] = todo[p]
           /\ \/ UNCHANGED <<obstacles, todo>>
              \/ /\ req.action = "add" /\ obstacles[o].salt = req.ref.salt
                 /\ obstacles'[o].state = obstacles[o].state
                 /\ todo'[o] = obstacles'[o].touched
              \/ /\ req.action = "remove"
                 /\ obstacles'[o].state = "removing"
                 /\ obstacles'[o].touched = obstacles[o].touched
                 /\ todo'[o] = obstacles[o].touched
<1> DEFINE req == reqs[1]
           o == reqs[1].ref.slot
<1>1. reqs \in Seq(Request) /\ reqs # <<>>
  BY DEF TypeOK, TakeRequest
<1>2. 1 \in DOMAIN reqs /\ Head(reqs) = req /\ req \in Request
  BY <1>1
<1>3. o \in ObSlot
  BY <1>2 DEF Request, ObRef
<1>4. obstacles \in [ObSlot -> Obstacle] /\ todo \in [ObSlot -> SUBSET TileRef]
      /\ \A p \in ObSlot : todo[p] = {}
  BY DEF TypeOK, TakeRequest
<1> HIDE DEF req, o
<1>5. CASE UNCHANGED <<obstacles, todo>>
  BY <1>2, <1>3, <1>4, <1>5 DEF req, o
<1>6. ASSUME NEW touched, obstacles[o].salt = req.ref.salt, req.action = "add",
             obstacles' = [obstacles EXCEPT ![o] =
                       [@ EXCEPT !.touched = touched, !.pending = {}]],
             todo' = [todo EXCEPT ![o] = touched]
      PROVE  /\ \A p \in ObSlot : /\ obstacles'[p].salt = obstacles[p].salt
                                  /\ obstacles'[p].shape = obstacles[p].shape
                                  /\ p # o => obstacles'[p] = obstacles[p] /\ todo'[p] = todo[p]
             /\ obstacles'[o].state = obstacles[o].state
             /\ todo'[o] = obstacles'[o].touched
  BY <1>3, <1>4, <1>6 DEF Obstacle
<1>7. ASSUME obstacles' = [obstacles EXCEPT ![o] =
                  [@ EXCEPT !.state = "removing", !.pending = {}]],
             todo' = [todo EXCEPT ![o] = obstacles[o].touched]
      PROVE  /\ \A p \in ObSlot : /\ obstacles'[p].salt = obstacles[p].salt
                                  /\ obstacles'[p].shape = obstacles[p].shape
                                  /\ p # o => obstacles'[p] = obstacles[p] /\ todo'[p] = todo[p]
             /\ obstacles'[o].state = "removing"
             /\ obstacles'[o].touched = obstacles[o].touched
             /\ todo'[o] = obstacles[o].touched
  BY <1>3, <1>4, <1>7 DEF Obstacle
<1>8. Head(reqs).ref.slot = o
  BY <1>2 DEF o
<1>9. \/ UNCHANGED <<obstacles, todo>>
      \/ \E touched \in QueryTiles(obstacles[o].shape) :
            /\ obstacles[o].salt = req.ref.salt /\ req.action = "add"
            /\ obstacles' = [obstacles EXCEPT ![o] =
                       [@ EXCEPT !.touched = touched, !.pending = {}]]
            /\ todo' = [todo EXCEPT ![o] = touched]
      \/ /\ req.action = "remove"
         /\ obstacles' = [obstacles EXCEPT ![o] =
                  [@ EXCEPT !.state = "removing", !.pending = {}]]
         /\ todo' = [todo EXCEPT ![o] = obstacles[o].touched]
  BY <1>2, <1>8 DEF TakeRequest, RequestLive
<1> DEFINE Frame == \A p \in ObSlot : /\ obstacles'[p].salt = obstacles[p].salt
                                      /\ obstacles'[p].shape = obstacles[p].shape
                                      /\ p # o => obstacles'[p] = obstacles[p] /\ todo'[p] = todo[p]
           Effect == \/ UNCHANGED <<obstacles, todo>>
                     \/ /\ req.action = "add" /\ obstacles[o].salt = req.ref.salt
                        /\ obstacles'[o].state = obstacles[o].state
                        /\ todo'[o] = obstacles'[o].touched
                     \/ /\ req.action = "remove"
                        /\ obstacles'[o].state = "removing"
                        /\ obstacles'[o].touched = obstacles[o].touched
                        /\ todo'[o] = obstacles[o].touched
<1>10. Frame /\ Effect
  BY <1>6, <1>7, <1>9
<1> QED
  BY <1>2, <1>3, <1>4, <1>10 DEF req, o

\* Taking a request leaves the other additions as they are.
LEMMA AddsTakeRequest ==
    ASSUME TypeOK, SlotInv, AddsFresh, TakeRequest
    PROVE  AddsFresh'
<1> DEFINE o == reqs[1].ref.slot
<1>1. /\ reqs \in Seq(Request) /\ reqs # <<>> /\ reqs' = Tail(reqs)
  BY DEF TypeOK, TakeRequest
<1>2. /\ DOMAIN reqs = 1..Len(reqs) /\ Len(reqs) \in Nat \ {0}
      /\ DOMAIN reqs' = 1..(Len(reqs) - 1)
      /\ \A k \in 1..(Len(reqs) - 1) : reqs'[k] = reqs[k + 1]
  BY <1>1, HeadTailProperties
<1> SUFFICES ASSUME NEW k \in DOMAIN reqs', FreshAdd(k)'
             PROVE  /\ obstacles'[reqs'[k].ref.slot].touched = {}
                    /\ \A j \in DOMAIN reqs' : reqs'[j] = reqs'[k] => j = k
  BY DEF AddsFresh
<1> DEFINE n == k + 1
           p == reqs[n].ref.slot
<1>3. n \in DOMAIN reqs /\ n # 1 /\ reqs'[k] = reqs[n] /\ p \in ObSlot
  BY <1>2, LiveInUse
<1>4. reqs[n].action = "add" /\ obstacles'[p].salt = reqs[n].ref.salt
  BY <1>3 DEF FreshAdd
<1>5. obstacles'[p].salt = obstacles[p].salt
  BY <1>3, TakenRequest
<1>6. FreshAdd(n)
  BY <1>4, <1>5 DEF FreshAdd
<1>7. obstacles[p].touched = {} /\ \A j \in DOMAIN reqs : reqs[j] = reqs[n] => j = n
  BY <1>3, <1>6 DEF AddsFresh
<1>8. ASSUME NEW j \in DOMAIN reqs', reqs'[j] = reqs'[k] PROVE j = k
  <2>1. reqs[j + 1] = reqs[n] /\ j + 1 \in DOMAIN reqs
    BY <1>2, <1>3, <1>8
  <2>2. j + 1 = n
    BY <1>7, <2>1
  <2> QED
    BY <1>2, <2>2
<1>9. ~(/\ reqs[1].action = "add" /\ o = p /\ obstacles[o].salt = reqs[1].ref.salt)
  <2> SUFFICES ASSUME reqs[1].action = "add", o = p, obstacles[o].salt = reqs[1].ref.salt
               PROVE  FALSE
    OBVIOUS
  <2>1. reqs[1] \in Request /\ reqs[n] \in Request /\ 1 \in DOMAIN reqs
    BY <1>3, LiveInUse, TakenRequest
  <2>2. reqs[1].ref.salt = reqs[n].ref.salt /\ reqs[1].ref.slot = reqs[n].ref.slot
    BY <1>4, <1>5
  <2>3. reqs[1].ref = reqs[n].ref
    BY <2>1, <2>2 DEF Request, ObRef
  <2>4. reqs[1] = reqs[n]
    BY <1>4, <2>1, <2>3 DEF Request
  <2> QED
    BY <1>3, <1>7, <2>1, <2>4
<1> HIDE DEF o, n, p
<1>10. obstacles'[p].touched = obstacles[p].touched
  <2>1. CASE p # o
    BY <1>3, <2>1, TakenRequest DEF o
  <2>2. CASE p = o
    BY <1>9, <2>2, TakenRequest DEF o
  <2> QED
    BY <2>1, <2>2
<1> QED
  BY <1>3, <1>7, <1>8, <1>10 DEF p

\* A freed slot has no addition queued for its new salt.
LEMMA AddsRebuild ==
    ASSUME TypeOK, SlotInv, AddsFresh, Rebuild, ObSaltBound < ObSaltMod - 1
    PROVE  AddsFresh'
<1>1. reqs' = reqs
  BY DEF Rebuild
<1>2. ASSUME NEW k \in DOMAIN reqs,
             obstacles'[reqs[k].ref.slot].salt = reqs[k].ref.salt
      PROVE  /\ obstacles[reqs[k].ref.slot].salt = reqs[k].ref.salt
             /\ obstacles'[reqs[k].ref.slot].touched = obstacles[reqs[k].ref.slot].touched
  <2> DEFINE p == reqs[k].ref.slot
  <2>1. /\ p \in ObSlot /\ obstacles[p].salt \in Nat
        /\ reqs[k].ref.salt \in Nat /\ reqs[k].ref.salt <= obstacles[p].salt
    BY LiveInUse
  <2>2. obstacles'[p].salt \in {obstacles[p].salt, obstacles[p].salt + 1}
        /\ obstacles'[p].touched = obstacles[p].touched
    BY <2>1, RebuiltObstacle
  <2> HIDE DEF p
  <2>3. obstacles'[p].salt = reqs[k].ref.salt
    BY <1>2 DEF p
  <2>4. obstacles[p].salt = reqs[k].ref.salt
    BY <2>1, <2>2, <2>3
  <2> QED
    BY <2>2, <2>4 DEF p
<1> QED
  BY <1>1, <1>2, AddsFrame

\* Additions stay fresh in every step.
LEMMA AddsStep ==
    ASSUME TypeOK, WorkToDo, SlotInv, AddsFresh, [Next]_vars, ObSaltBound < ObSaltMod - 1
    PROVE  AddsFresh'
<1>1. CASE UNCHANGED <<obstacles, reqs>>
  BY <1>1 DEF AddsFresh, FreshAdd
<1>2. ASSUME NEW o \in ObSlot, NEW ref \in TileRef, QueueTile(o, ref) PROVE AddsFresh'
  <2>1. UNCHANGED reqs /\ \A p \in ObSlot : /\ obstacles'[p].salt = obstacles[p].salt
                                           /\ obstacles'[p].touched = obstacles[p].touched
    <3>1. obstacles \in [ObSlot -> Obstacle]
      BY DEF TypeOK
    <3>2. \/ obstacles' = obstacles
          \/ obstacles' = [obstacles EXCEPT ![o].pending = @ \cup {ref}]
      BY <1>2 DEF QueueTile
    <3> QED
      BY <1>2, <3>1, <3>2 DEF QueueTile, Obstacle
  <2>2. \A k \in DOMAIN reqs : reqs[k].ref.slot \in ObSlot
    BY LiveInUse
  <2> QED
    BY <2>1, <2>2, AddsFrame
<1> QED
  BY <1>1, <1>2, AddsAddObstacle, AddsRemoveObstacle, AddsTakeRequest, AddsRebuild
     DEF Next, ClientStep, UpdateStep, AddTile, RemoveTile, BuildTile, UpdateCall,
         RequestsTaken, vars, obVars

----------------------------------------------------------------------------
(* What the navigation mesh shows.                                          *)
(*                                                                          *)
(* Of a tile built without error: it shows what a rebuild would, unless one *)
(* is queued or about to be; and what it shows is backed by an obstacle     *)
(* still in its slot, which, if it is leaving, waits for this very tile.    *)
(* That an obstacle waits for all its tiles needs the update queue to have  *)
(* room for them, RoomToQueue: a touched tile that finds it full is dropped *)
(* (Update), and the run tc_overflow shows what comes of it.                *)

RoomToQueue == \A o \in ObSlot : todo[o] # {} => Len(update) < MaxUpdate

Cut(p, ref) == Rasterised(p) /\ ref \in obstacles[p].touched

Backed(r, ref) ==
    LET ob == obstacles[r.slot] IN
    /\ ob.salt = r.salt /\ ob.state # "empty" /\ ref \in ob.touched
    /\ ob.state = "removing" => ref \in ob.pending \/ ref \in todo[r.slot]

Undisturbed(ref) == ref \notin Range(update) /\ \A o \in ObSlot : ref \notin todo[o]

Shown(i) ==
    LET ref == RefOfTile(i)
        m == mesh[tiles[i].loc] IN
    tiles[i].loc # NoLoc /\ ref \in built =>
        /\ Undisturbed(ref) => m = Baked(ref)
        /\ m # NoMesh => \A r \in m.marks : Backed(r, ref)

MeshInv == \A i \in TileSlot : Shown(i)

\* The invariant gives the two properties of the mesh.
LEMMA ShownGives == MeshInv => MeshReflectsObstacles /\ NoGhostMarks
<1>1. MeshInv => MeshReflectsObstacles
  BY DEF MeshInv, Shown, MeshReflectsObstacles, TileFresh, Undisturbed
<1>2. MeshInv => NoGhostMarks
  BY DEF MeshInv, Shown, NoGhostMarks, Backed
<1> QED
  BY <1>1, <1>2

\* The obstacles cut out of a tile decide what a rebuild of it leaves.
LEMMA BakedSame ==
    ASSUME NEW ref, tiles'[ref.slot].loc = tiles[ref.slot].loc,
           \A p \in ObSlot : /\ Cut(p, ref)' <=> Cut(p, ref)
                             /\ Cut(p, ref) => /\ obstacles'[p].salt = obstacles[p].salt
                                               /\ obstacles'[p].shape = obstacles[p].shape
    PROVE  Baked(ref)' = Baked(ref)
<1>1. ASSUME NEW p \in ObSlot, Cut(p, ref)
      PROVE  RefOfObstacle(p)' = RefOfObstacle(p)
  BY <1>1 DEF RefOfObstacle
<1>2. Marks(ref)' = {RefOfObstacle(p)' : p \in {q \in ObSlot : Cut(q, ref)'}}
  BY DEF Marks, Cut
<1>3. Marks(ref) = {RefOfObstacle(p) : p \in {q \in ObSlot : Cut(q, ref)}}
  BY DEF Marks, Cut
<1>4. Marks(ref)' = Marks(ref)
  BY <1>1, <1>2, <1>3
<1>5. \A m \in Marks(ref) : m.slot \in ObSlot /\ Cut(m.slot, ref)
  BY <1>3 DEF RefOfObstacle
<1>6. NoPolys(tiles[ref.slot].loc, Marks(ref))' = NoPolys(tiles[ref.slot].loc, Marks(ref))
  BY <1>4, <1>5 DEF NoPolys
<1> QED
  BY <1>4, <1>6 DEF Baked

\* What a rebuild leaves is backed.
LEMMA MarksBacked ==
    ASSUME NEW ref
    PROVE  \A r \in Marks(ref) : r.slot \in ObSlot /\ Cut(r.slot, ref) /\ Backed(r, ref)
  BY DEF Marks, RefOfObstacle, Cut, Rasterised, Backed

\* The marks of the tile at a location are references to obstacles.
LEMMA MarksTyped ==
    ASSUME TypeOK, NEW i \in TileSlot, tiles[i].loc # NoLoc
    PROVE  /\ tiles[i].loc \in Loc /\ RefOfTile(i) \in TileRef
           /\ mesh[tiles[i].loc] # NoMesh =>
                \A r \in mesh[tiles[i].loc].marks : r \in ObRef /\ r.slot \in ObSlot
<1>1. tiles[i].loc \in Loc /\ RefOfTile(i) \in TileRef
  BY DEF TypeOK, RefOfTile, TileRef
<1>2. mesh[tiles[i].loc] \in MeshTile \cup {NoMesh}
  BY <1>1 DEF TypeOK
<1> QED
  BY <1>1, <1>2 DEF MeshTile, ObRef

\* Steps that leave tiles and mesh alone: what backs a mark goes on to, and a
\* tile that waits for no rebuild afterwards did not wait and would not change.
LEMMA ShownFrame ==
    ASSUME TypeOK, MeshInv, UNCHANGED <<tileVars, mesh, built>>,
           \A ref \in TileRef, r \in ObRef : Backed(r, ref) => Backed(r, ref)',
           \A ref \in TileRef : Undisturbed(ref)' =>
              /\ Undisturbed(ref)
              /\ \A p \in ObSlot : /\ Cut(p, ref)' <=> Cut(p, ref)
                                   /\ Cut(p, ref) => /\ obstacles'[p].salt = obstacles[p].salt
                                                     /\ obstacles'[p].shape = obstacles[p].shape
    PROVE  MeshInv'
<1> SUFFICES ASSUME NEW i \in TileSlot PROVE Shown(i)'
  BY DEF MeshInv
<1>1. /\ RefOfTile(i)' = RefOfTile(i) /\ mesh' = mesh /\ built' = built
      /\ tiles'[i] = tiles[i] /\ RefOfTile(i).slot = i
  BY DEF tileVars, RefOfTile
<1>2. CASE tiles[i].loc = NoLoc \/ RefOfTile(i) \notin built
  BY <1>1, <1>2 DEF Shown
<1>3. CASE tiles[i].loc # NoLoc /\ RefOfTile(i) \in built
  <2>1. PICK ref \in TileRef : ref = RefOfTile(i)
    BY <1>3, MarksTyped
  <2>2. PICK m : m = mesh[tiles[i].loc]
    OBVIOUS
  <2>3. /\ Undisturbed(ref) => m = Baked(ref)
        /\ m # NoMesh => \A r \in m.marks : Backed(r, ref) /\ r \in ObRef
    BY <1>3, <2>1, <2>2, MarksTyped DEF MeshInv, Shown
  <2>4. m # NoMesh => \A r \in m.marks : Backed(r, ref)'
    BY <2>3
  <2>5. ASSUME Undisturbed(ref)' PROVE m = Baked(ref)'
    <3>1. tiles'[ref.slot].loc = tiles[ref.slot].loc
      BY <1>1, <2>1
    <3>2. Baked(ref)' = Baked(ref)
      BY <2>5, <3>1, BakedSame
    <3> QED
      BY <2>3, <2>5, <3>2
  <2> QED
    BY <1>1, <2>1, <2>2, <2>4, <2>5 DEF Shown
<1> QED
  BY <1>2, <1>3

\* AddObstacle takes a slot that backs no mark.
LEMMA ShownAddObstacle ==
    ASSUME TypeOK, SlotInv, MeshInv, NEW shape \in Shapes, AddObstacle(shape)
    PROVE  MeshInv'
<1> DEFINE o == Head(freeObs)
<1>1. o \in ObSlot /\ Range(freeObs) = {o} \cup Range(freeObs')
  BY HeadTailType, TailElements DEF AddObstacle, TypeOK
<1>2. obstacles[o].state = "empty"
  BY <1>1 DEF SlotInv, ObstacleSlotsExact
<1>3. /\ obstacles'[o].touched = {}
      /\ \A p \in ObSlot : p # o => obstacles'[p] = obstacles[p]
  BY <1>1 DEF AddObstacle, TypeOK
<1>4. UNCHANGED <<tileVars, mesh, built, update, todo>>
  BY DEF AddObstacle
<1> HIDE DEF o
<1>5. ASSUME NEW ref \in TileRef, NEW r \in ObRef, Backed(r, ref) PROVE Backed(r, ref)'
  <2>1. r.slot \in ObSlot /\ r.slot # o
    BY <1>2, <1>5 DEF Backed, ObRef
  <2> QED
    BY <1>3, <1>4, <1>5, <2>1 DEF Backed
<1>6. ASSUME NEW ref \in TileRef, NEW p \in ObSlot
      PROVE  /\ Cut(p, ref)' <=> Cut(p, ref)
             /\ Cut(p, ref) => /\ obstacles'[p].salt = obstacles[p].salt
                               /\ obstacles'[p].shape = obstacles[p].shape
  BY <1>2, <1>3 DEF Cut, Rasterised
<1>7. \A ref \in TileRef : Undisturbed(ref)' => Undisturbed(ref)
  BY <1>4 DEF Undisturbed
<1> QED
  BY <1>4, <1>5, <1>6, <1>7, ShownFrame

\* Taking a request disturbs the tiles of its obstacle, and no other tile.
LEMMA ShownTakeRequest ==
    ASSUME TypeOK, AddsFresh, MeshInv, TakeRequest
    PROVE  MeshInv'
<1>1. PICK o \in ObSlot :
        /\ \A p \in ObSlot : /\ obstacles'[p].salt = obstacles[p].salt
                             /\ obstacles'[p].shape = obstacles[p].shape
                             /\ todo[p] = {}
                             /\ p # o => obstacles'[p] = obstacles[p] /\ todo'[p] = todo[p]
        /\ \/ UNCHANGED <<obstacles, todo>>
           \/ /\ obstacles[o].touched = {}
              /\ todo'[o] = obstacles'[o].touched
           \/ /\ obstacles'[o].state = "removing"
              /\ obstacles'[o].touched = obstacles[o].touched
              /\ todo'[o] = obstacles[o].touched
  <2>1. reqs[1].ref.slot \in ObSlot
    BY TakenRequest
  <2>2. ASSUME reqs[1].action = "add", obstacles[reqs[1].ref.slot].salt = reqs[1].ref.salt
        PROVE  obstacles[reqs[1].ref.slot].touched = {}
    <3>1. 1 \in DOMAIN reqs
      BY TakenRequest
    <3> QED
      BY <2>2, <3>1 DEF AddsFresh, FreshAdd
  <2> QED
    BY <2>1, <2>2, TakenRequest
<1>2. UNCHANGED <<tileVars, mesh, built, update>>
  BY DEF TakeRequest
<1>3. ASSUME NEW ref \in TileRef, NEW r \in ObRef, Backed(r, ref) PROVE Backed(r, ref)'
  <2>1. r.slot \in ObSlot
    BY DEF ObRef
  <2>2. CASE r.slot # o \/ UNCHANGED <<obstacles, todo>>
    BY <1>1, <1>3, <2>1, <2>2 DEF Backed
  <2>3. CASE /\ r.slot = o /\ obstacles'[o].state = "removing"
             /\ obstacles'[o].touched = obstacles[o].touched
             /\ todo'[o] = obstacles[o].touched
    BY <1>1, <1>3, <2>3 DEF Backed
  <2> QED
    BY <1>1, <1>3, <2>2, <2>3 DEF Backed
<1>4. ASSUME NEW ref \in TileRef, Undisturbed(ref)', NEW p \in ObSlot
      PROVE  Cut(p, ref)' <=> Cut(p, ref)
  <2>1. ref \notin todo'[p]
    BY <1>4 DEF Undisturbed
  <2>2. CASE p # o \/ UNCHANGED <<obstacles, todo>>
    BY <1>1, <2>2 DEF Cut, Rasterised
  <2>3. CASE p = o
    BY <1>1, <2>1, <2>2, <2>3 DEF Cut
  <2> QED
    BY <2>2, <2>3
<1>5. \A ref \in TileRef : Undisturbed(ref)' => Undisturbed(ref)
  BY <1>1, <1>2 DEF Undisturbed
<1> QED
  BY <1>1, <1>2, <1>3, <1>4, <1>5, ShownFrame

\* A tile queued is pending from then on, as long as the queue has room.
LEMMA ShownQueueTile ==
    ASSUME TypeOK, MeshInv, RoomToQueue,
           NEW o \in ObSlot, NEW tile \in TileRef, QueueTile(o, tile)
    PROVE  MeshInv'
<1>1. Len(update) < MaxUpdate
  BY DEF QueueTile, RoomToQueue
<1>2. /\ \A p \in ObSlot : todo'[p] = IF p = o THEN todo[p] \ {tile} ELSE todo[p]
      /\ UNCHANGED <<tileVars, mesh, built>>
  BY DEF QueueTile, TypeOK
<1>3. Range(update') = Range(update) \cup {tile}
  BY <1>1, AppendElements DEF QueueTile, TypeOK
<1>4. \A p \in ObSlot :
         /\ p # o => obstacles'[p] = obstacles[p]
         /\ obstacles'[p].salt = obstacles[p].salt /\ obstacles'[p].shape = obstacles[p].shape
         /\ obstacles'[p].state = obstacles[p].state
         /\ obstacles'[p].touched = obstacles[p].touched
         /\ p = o => obstacles'[p].pending = obstacles[p].pending \cup {tile}
  <2>1. obstacles \in [ObSlot -> Obstacle]
    BY DEF TypeOK
  <2>2. obstacles' = [obstacles EXCEPT ![o].pending = @ \cup {tile}]
    BY <1>1 DEF QueueTile
  <2> QED
    BY <2>1, <2>2 DEF Obstacle
<1>5. ASSUME NEW ref \in TileRef, NEW r \in ObRef, Backed(r, ref) PROVE Backed(r, ref)'
  <2>1. r.slot \in ObSlot
    BY DEF ObRef
  <2> QED
    BY <1>2, <1>4, <1>5, <2>1 DEF Backed
<1>6. \A ref \in TileRef, p \in ObSlot : Cut(p, ref)' <=> Cut(p, ref)
  BY <1>4 DEF Cut, Rasterised
<1>7. \A ref \in TileRef : Undisturbed(ref)' => Undisturbed(ref)
  BY <1>2, <1>3 DEF Undisturbed
<1> QED
  BY <1>2, <1>4, <1>5, <1>6, <1>7, ShownFrame

\* A tile that comes has not been built, and one that goes is built no more.
LEMMA ShownTiles ==
    ASSUME TypeOK, KnownInv, MeshInv,
           \/ \E l \in Loc : AddTile(l)
           \/ \E ref \in TileRef : RemoveTile(ref)
    PROVE  MeshInv'
<1> SUFFICES ASSUME NEW i \in TileSlot PROVE Shown(i)'
  BY DEF MeshInv
<1>1. /\ UNCHANGED <<obstacles, update, todo, mesh>> /\ built' \subseteq built
  BY DEF AddTile, RemoveTile, obVars
<1>2. ASSUME tiles'[i] # tiles[i], tiles'[i].loc # NoLoc
      PROVE  RefOfTile(i)' \notin built'
  <2>1. /\ Head(freeTiles) \in TileSlot /\ tiles[Head(freeTiles)].loc = NoLoc
        /\ \E l \in Loc : tiles' = [tiles EXCEPT ![Head(freeTiles)].loc = l]
        /\ built' = built
    <3>1. ASSUME NEW ref \in TileRef, RemoveTile(ref) PROVE FALSE
      <4>1. ref.slot \in TileSlot /\ tiles \in [TileSlot -> [salt : 1..(TileSaltMod - 1), loc : Loc \cup {NoLoc}]]
        BY DEF TileRef, TypeOK
      <4>2. tiles' = [tiles EXCEPT ![ref.slot].loc = NoLoc,
                           ![ref.slot].salt = NextSalt(@, TileSaltMod)]
        BY <3>1 DEF RemoveTile
      <4>3. i # ref.slot => tiles'[i] = tiles[i]
        BY <4>1, <4>2
      <4>4. tiles'[ref.slot].loc = NoLoc
        BY <4>1, <4>2
      <4> QED
        BY <1>2, <4>3, <4>4
    <3>2. PICK l \in Loc : AddTile(l)
      BY <3>1
    <3>3. Head(freeTiles) \in TileSlot /\ Range(freeTiles) = {Head(freeTiles)} \cup Range(freeTiles')
      BY <3>2, HeadTailType, TailElements DEF AddTile, TypeOK
    <3> QED
      BY <3>2, <3>3 DEF AddTile, KnownInv, TileSlotsExact
  <2>2. i = Head(freeTiles)
    BY <1>2, <2>1 DEF TypeOK
  <2>3. tiles'[i].salt = tiles[i].salt
    BY <2>1, <2>2 DEF TypeOK
  <2>4. RefOfTile(i) \notin built
    <3>1. tiles[i].salt \in Nat /\ tiles[i].loc = NoLoc
      BY <2>1, <2>2, ConstantsAssumption DEF TypeOK
    <3>2. RefOfTile(i) \notin TileHandles
      BY <3>1 DEF TileHandles, RefOfTile
    <3> QED
      BY <3>2 DEF KnownInv, KnownTiles
  <2> QED
    BY <2>1, <2>3, <2>4 DEF RefOfTile
<1>3. CASE tiles'[i] = tiles[i] /\ tiles[i].loc # NoLoc /\ RefOfTile(i)' \in built'
  <2>1. PICK ref : ref = RefOfTile(i) /\ ref = RefOfTile(i)' /\ ref.slot = i
    BY <1>3 DEF RefOfTile
  <2>2. PICK m : m = mesh[tiles[i].loc]
    OBVIOUS
  <2>3. /\ Undisturbed(ref) => m = Baked(ref)
        /\ m # NoMesh => \A r \in m.marks : Backed(r, ref)
    BY <1>1, <1>3, <2>1, <2>2 DEF MeshInv, Shown
  <2>4. Baked(ref)' = Baked(ref)
    <3>1. \A p \in ObSlot : Cut(p, ref)' <=> Cut(p, ref)
      BY <1>1 DEF Cut, Rasterised
    <3> QED
      BY <1>1, <1>3, <2>1, <3>1, BakedSame
  <2>5. /\ Undisturbed(ref)' => Undisturbed(ref)
        /\ \A r : Backed(r, ref) => Backed(r, ref)'
    BY <1>1 DEF Undisturbed, Backed
  <2> QED
    BY <1>1, <1>3, <2>1, <2>2, <2>3, <2>4, <2>5 DEF Shown
<1> QED
  BY <1>2, <1>3 DEF Shown

\* A rebuild changes the mesh at the place of its tile only, and only if the
\* reference is valid; when it returns no error the tile shows what it should.
LEMMA BuiltMesh ==
    ASSUME TypeOK, KnownInv, NEW ref \in TileHandles, NEW outcome,
           BuildNavMeshTile(ref, outcome), tiles' = tiles,
           NEW i \in TileSlot, tiles[i].loc # NoLoc, RefOfTile(i) \in built'
    PROVE  \/ RefOfTile(i) = ref /\ mesh'[tiles[i].loc] = Baked(ref)
           \/ RefOfTile(i) # ref /\ RefOfTile(i) \in built /\ mesh'[tiles[i].loc] = mesh[tiles[i].loc]
<1>1. tiles[i].loc \in Loc
  BY MarksTyped
<1>2. mesh \in [Loc -> MeshTile \cup {NoMesh}]
  BY DEF TypeOK
<1>3. CASE RefOfTile(i) = ref
  <2>1. outcome = "ok"
    BY <1>3, RebuiltTiles
  <2>2. mesh' = [mesh EXCEPT ![tiles[ref.slot].loc] = Baked(ref)] /\ ref.slot = i
    BY <1>3, <2>1 DEF BuildNavMeshTile, RefOfTile
  <2> QED
    BY <1>1, <1>2, <1>3, <2>2
<1>4. CASE RefOfTile(i) # ref
  <2>1. RefOfTile(i) \in built
    BY <1>4, RebuiltTiles
  <2>2. CASE outcome \notin {"ok", "add"}
    BY <1>4, <2>1, <2>2 DEF BuildNavMeshTile
  <2>3. CASE outcome \in {"ok", "add"}
    <3>1. tiles[ref.slot].salt = ref.salt
      BY <2>3 DEF BuildNavMeshTile, Outcomes, ValidTile
    <3>2. ref \in TileRef /\ ref.slot \in TileSlot
      BY DEF TileHandles, TileRef
    <3>3. ref.slot # i
      <4>1. ref = [slot |-> ref.slot, salt |-> ref.salt]
        BY <3>2 DEF TileRef
      <4> QED
        BY <1>4, <3>1, <4>1 DEF RefOfTile
    <3>4. tiles[ref.slot].loc # tiles[i].loc
      BY <3>2, <3>3 DEF KnownInv, TileSlotsExact
    <3>5. \E new : mesh' = [mesh EXCEPT ![tiles[ref.slot].loc] = new]
      BY <2>3 DEF BuildNavMeshTile
    <3> QED
      BY <1>1, <1>2, <1>4, <2>1, <3>4, <3>5
  <2> QED
    BY <2>2, <2>3
<1> QED
  BY <1>3, <1>4

\* A rebuild the client asks for itself.
LEMMA ShownBuildTile ==
    ASSUME TypeOK, KnownInv, MeshInv, NEW tile \in TileRef, BuildTile(tile)
    PROVE  MeshInv'
<1> SUFFICES ASSUME NEW i \in TileSlot, tiles[i].loc # NoLoc, RefOfTile(i) \in built'
             PROVE  Shown(i)'
  BY DEF MeshInv, Shown, BuildTile, tileVars, RefOfTile
<1>1. UNCHANGED <<tiles, obstacles, update, todo>> /\ tile \in TileHandles
  BY DEF BuildTile, tileVars, obVars
<1>2. PICK outcome : BuildNavMeshTile(tile, outcome)
  BY DEF BuildTile
<1>3. PICK ref : ref = RefOfTile(i) /\ ref = RefOfTile(i)' /\ ref.slot = i
  BY <1>1 DEF RefOfTile
<1>4. PICK m : m = mesh'[tiles[i].loc]
  OBVIOUS
<1>5. \/ ref = tile /\ m = Baked(ref)
      \/ ref \in built /\ m = mesh[tiles[i].loc]
  BY <1>1, <1>2, <1>3, <1>4, BuiltMesh
<1>6. /\ Undisturbed(ref) => m = Baked(ref)
      /\ m # NoMesh => \A r \in m.marks : Backed(r, ref)
  <2>1. CASE ref \in built /\ m = mesh[tiles[i].loc]
    BY <1>3, <2>1 DEF MeshInv, Shown
  <2>2. CASE m = Baked(ref)
    <3>1. m # NoMesh => m.marks = Marks(ref)
      BY <2>2 DEF Baked
    <3> QED
      BY <2>2, <3>1, MarksBacked
  <2> QED
    BY <1>5, <2>1, <2>2
<1>7. Baked(ref)' = Baked(ref)
  <2>1. \A p \in ObSlot : Cut(p, ref)' <=> Cut(p, ref)
    BY <1>1 DEF Cut, Rasterised
  <2> QED
    BY <1>1, <2>1, BakedSame
<1>8. /\ Undisturbed(ref)' => Undisturbed(ref)
      /\ \A r : Backed(r, ref) => Backed(r, ref)'
  BY <1>1 DEF Undisturbed, Backed
<1> QED
  BY <1>1, <1>3, <1>4, <1>6, <1>7, <1>8 DEF Shown

\* Update's own rebuild: an obstacle that leaves gives up its slot only when
\* this tile was the last one that shows it.
LEMMA ShownRebuild ==
    ASSUME TypeOK, WorkToDo, SlotInv, KnownInv, MeshInv, Rebuild,
           ObSaltBound < ObSaltMod - 1
    PROVE  MeshInv'
<1> SUFFICES ASSUME NEW i \in TileSlot, tiles[i].loc # NoLoc, RefOfTile(i) \in built'
             PROVE  Shown(i)'
  BY DEF MeshInv, Shown, Rebuild, tileVars, RefOfTile
<1>1. UNCHANGED <<tiles, todo>> /\ update # <<>> /\ update \in Seq(TileRef)
      /\ \A o \in ObSlot : todo[o] = {}
  BY DEF Rebuild, tileVars, WorkToDo, TypeOK, KnownInv, TodoPhase
<1>2. PICK tile : tile = Head(update)
  OBVIOUS
<1>3. /\ Range(update) = {tile} \cup Range(update') /\ tile \in TileHandles
      /\ \E outcome : BuildNavMeshTile(tile, outcome)
  <2>1. Range(update) = {Head(update)} \cup Range(Tail(update))
    BY <1>1, TailElements
  <2> QED
    BY <1>2, <2>1 DEF Rebuild, Dequeued, KnownInv, KnownTiles
<1>4. PICK outcome : BuildNavMeshTile(tile, outcome)
  BY <1>3
<1>5. PICK ref : ref = RefOfTile(i) /\ ref = RefOfTile(i)' /\ ref.slot = i
  BY <1>1 DEF RefOfTile
<1>6. PICK m : m = mesh'[tiles[i].loc]
  OBVIOUS
<1>7. \/ ref = tile /\ m = Baked(ref)
      \/ ref # tile /\ ref \in built /\ m = mesh[tiles[i].loc]
  <2>1. tile \in TileHandles /\ tiles' = tiles
    BY <1>1, <1>3
  <2>2. \/ RefOfTile(i) = tile /\ mesh'[tiles[i].loc] = Baked(tile)
        \/ RefOfTile(i) # tile /\ RefOfTile(i) \in built /\ mesh'[tiles[i].loc] = mesh[tiles[i].loc]
    BY <1>4, <2>1, BuiltMesh
  <2> QED
    BY <1>5, <1>6, <2>2
<1>8. ASSUME NEW p \in ObSlot
      PROVE  /\ Cut(p, ref)' <=> Cut(p, ref)
             /\ Cut(p, ref) => obstacles'[p].salt = obstacles[p].salt
             /\ obstacles'[p].shape = obstacles[p].shape
  BY RebuiltObstacle DEF Cut, Rasterised
<1>9. Baked(ref)' = Baked(ref)
  BY <1>1, <1>8, BakedSame
<1>10. CASE ref = tile /\ m = Baked(ref)
  <2>1. m # NoMesh => \A r \in m.marks : r.slot \in ObSlot /\ Cut(r.slot, ref) /\ Backed(r, ref)
    BY <1>10, MarksBacked DEF Baked
  <2>2. ASSUME NEW r, r.slot \in ObSlot, Cut(r.slot, ref), Backed(r, ref)
        PROVE  Backed(r, ref)'
    BY <2>2, RebuiltObstacle DEF Cut, Rasterised, Backed
  <2> QED
    BY <1>1, <1>5, <1>6, <1>9, <1>10, <2>1, <2>2 DEF Shown
<1>11. CASE ref # tile /\ ref \in built /\ m = mesh[tiles[i].loc]
  <2>1. /\ Undisturbed(ref) => m = Baked(ref)
        /\ m # NoMesh => \A r \in m.marks : r.slot \in ObSlot /\ Backed(r, ref)
    BY <1>5, <1>11, MarksTyped DEF MeshInv, Shown
  <2>2. Undisturbed(ref)' => Undisturbed(ref)
    BY <1>1, <1>3, <1>11 DEF Undisturbed
  <2>3. ASSUME NEW r, r.slot \in ObSlot, Backed(r, ref)
        PROVE  Backed(r, ref)'
    <3>1. obstacles[r.slot].state = "removing" => ref \in obstacles[r.slot].pending \ {tile}
      BY <1>1, <1>11, <2>3 DEF Backed
    <3> QED
      BY <1>1, <1>2, <2>3, <3>1, RebuiltObstacle DEF Backed
  <2> QED
    BY <1>1, <1>5, <1>6, <1>9, <2>1, <2>2, <2>3 DEF Shown
<1> QED
  BY <1>7, <1>10, <1>11

\* Every step keeps what the mesh shows backed, as long as no touched tile is
\* dropped for want of room.
LEMMA ShownStep ==
    ASSUME TypeOK, WorkToDo, SlotInv, KnownInv, AddsFresh, MeshInv, RoomToQueue, [Next]_vars,
           ObSaltBound < ObSaltMod - 1
    PROVE  MeshInv'
<1>1. CASE UNCHANGED <<tileVars, obstacles, update, todo, mesh, built>>
  <2>1. \A ref : Baked(ref)' = Baked(ref) /\ (Undisturbed(ref)' <=> Undisturbed(ref))
    BY <1>1 DEF Baked, NoPolys, Marks, RefOfObstacle, Rasterised, Undisturbed, tileVars
  <2>2. \A ref, r : Backed(r, ref)' <=> Backed(r, ref)
    BY <1>1 DEF Backed
  <2> SUFFICES ASSUME NEW i \in TileSlot PROVE Shown(i)'
    BY DEF MeshInv
  <2>3. PICK ref : ref = RefOfTile(i) /\ ref = RefOfTile(i)'
    BY <1>1 DEF RefOfTile, tileVars
  <2>4. Shown(i)
    BY DEF MeshInv
  <2> QED
    BY <1>1, <2>1, <2>2, <2>3, <2>4 DEF Shown, tileVars
<1> QED
  BY <1>1, ShownAddObstacle, ShownTakeRequest, ShownQueueTile, ShownTiles,
     ShownBuildTile, ShownRebuild
     DEF Next, ClientStep, UpdateStep, RemoveObstacle, UpdateCall, RequestsTaken, vars, obVars

\* The mesh invariant holds at the start: nothing has been built.
LEMMA ShownInit == Init => AddsFresh /\ MeshInv
  BY DEF Init, AddsFresh, MeshInv, Shown

\* What the mesh shows is right in every behaviour in which the update queue
\* always has room for the touched tiles.
LEMMA ShownCorrect ==
    ASSUME TileSaltBound < TileSaltMod - 1, ObSaltBound < ObSaltMod - 1
    PROVE  Spec /\ []RoomToQueue => []MeshInv
<1> DEFINE Known == TypeOK /\ WorkToDo /\ KnownInv /\ SlotInv
<1>1. Spec => []Known
  BY KnownCorrect, SlotCorrect, PTL
<1>2. Known /\ AddsFresh /\ MeshInv /\ RoomToQueue /\ [Next]_vars => (AddsFresh /\ MeshInv)'
  BY AddsStep, ShownStep
<1>3. Init => AddsFresh /\ MeshInv
  BY ShownInit
<1> HIDE DEF Known
<1> QED
  BY <1>1, <1>2, <1>3, PTL DEF Spec

\* A tile built without error, with no rebuild queued or about to be, shows
\* exactly the obstacles that are present and touch it (Update, AddObstacle,
\* RemoveObstacle, BuildNavMeshTile), unless the update queue was full.
THEOREM MeshShowsObstacles ==
    ASSUME TileSaltBound < TileSaltMod - 1, ObSaltBound < ObSaltMod - 1
    PROVE  Spec /\ []RoomToQueue => []MeshReflectsObstacles
  BY ShownCorrect, ShownGives, PTL

\* An obstacle keeps its slot while a tile built without error still shows its
\* shape (Update, RemoveObstacle), unless the update queue was full.
THEOREM NoGhosts ==
    ASSUME TileSaltBound < TileSaltMod - 1, ObSaltBound < ObSaltMod - 1
    PROVE  Spec /\ []RoomToQueue => []NoGhostMarks
  BY ShownCorrect, ShownGives, PTL
=============================================================================
