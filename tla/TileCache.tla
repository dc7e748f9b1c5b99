----------------------------- MODULE TileCache -----------------------------
(***************************************************************************)
(* The dynamic-obstacle tile cache of package detour_tile_cache.           *)
(*                                                                         *)
(* A TileCache keeps compressed navigation tiles and obstacles.  Clients   *)
(* queue requests (AddObstacle, RemoveObstacle); every call of Update      *)
(* takes the queued requests when no tile is waiting to be rebuilt, and    *)
(* then rebuilds ONE waiting tile into the navigation mesh.                *)
(*                                                                         *)
(* Update is one Go call and nothing interleaves with it: `pc' is its      *)
(* program counter, and every client operation needs pc = "idle".  Its two *)
(* nested request loops take one action per iteration.                     *)
(*                                                                         *)
(* Data that no property tells apart is abstract: an obstacle's geometry   *)
(* is a member of Shapes with the locations it overlaps, a reference is    *)
(* the record that encodeTileId/encodeObstacleId pack into 32 bits, hash   *)
(* chains and touched lists are sets (their order is arbitrary), and the   *)
(* polygons of a rebuilt tile are the set of obstacles cut out of it.      *)
(***************************************************************************)
EXTENDS Integers, Sequences, FiniteSets, Functions

CONSTANTS
    Cells,         \* tile grid coordinates (tx, ty)
    Layers,        \* layers stacked in one cell (tlayer)
    MaxTiles,      \* params.MaxTiles: slots for compressed tiles
    TileSaltMod,   \* 2^saltBits: tile salts wrap here
    MaxObstacles,  \* params.MaxObstacles: slots for obstacles
    ObSaltMod,     \* 2^16: obstacle salts wrap here
    MaxRequests,   \* maxRequests: capacity of reqs
    MaxUpdate,     \* maxUpdate: capacity of update
    MaxTouched,    \* MaxTouchedTiles: capacity of an obstacle's Touched
    Shapes,        \* obstacle geometries
    Hits,          \* Hits[s]: locations whose tight bounds s overlaps
    Fills,         \* Fills[s]: locations left without any polygon by s
    Faults,        \* the errors a rebuild may meet, a subset of FaultKinds
    TileSaltBound, \* bound of the model: tiles with a larger salt stay
    ObSaltBound,   \* bound of the model: slots with a larger salt are not reused
    NoLoc,         \* Header == nil
    NoMesh         \* no tile in the navigation mesh at a location

Loc == Cells \X Layers
TileSlot == 1..MaxTiles
ObSlot == 1..MaxObstacles
TileRef == [slot : TileSlot, salt : 1..(TileSaltMod - 1)]
ObRef == [slot : ObSlot, salt : 1..(ObSaltMod - 1)]
\* "build": decompression, regions, contours, mesh or CreateNavMeshData fail.
\* "add": NavMesh.AddTile refuses the new tile, the old one is gone by then.
FaultKinds == {"build", "add"}

ASSUME ConstantsAssumption ==
    /\ MaxTiles \in Nat \ {0} /\ MaxObstacles \in Nat \ {0}
    /\ TileSaltMod \in Nat /\ TileSaltMod >= 3
    /\ ObSaltMod \in Nat /\ ObSaltMod >= 3
    /\ MaxRequests \in Nat \ {0} /\ MaxUpdate \in Nat \ {0}
    /\ Shapes # {}
    /\ MaxTouched \in Nat /\ TileSaltBound \in Nat /\ ObSaltBound \in Nat
    /\ Hits \in [Shapes -> SUBSET Loc]
    /\ Fills \in [Shapes -> SUBSET Loc]
    /\ Faults \subseteq FaultKinds
    /\ NoLoc \notin Loc
    /\ NoMesh \notin [tile : TileRef, marks : SUBSET ObRef]

VARIABLES
    tiles,      \* tiles[i]: salt and header location of compressed tile i
    freeTiles,  \* nextFreeTile and the Next chain behind it
    posLookup,  \* posLookup[c]: the slots chained for the cell c
    obstacles,  \* obstacles[i]: salt, state, shape, touched, pending
    freeObs,    \* nextFreeObstacle and the Next chain behind it
    reqs,       \* reqs[0..nreqs-1]
    update,     \* update[0..nupdate-1]
    pc,         \* where Update is: "idle" when no call is running
    todo,       \* todo[o]: touched tiles the running request has to queue
    mesh,       \* mesh[l]: the navigation mesh tile at l
    built,      \* history: tiles whose latest rebuild returned no error
    asked       \* history: asked[o], RemoveObstacle was called for the
                \*   obstacle now in slot o

tileVars == <<tiles, freeTiles, posLookup>>
obVars == <<obstacles, freeObs, asked>>
vars == <<tileVars, obVars, reqs, update, pc, todo, mesh, built>>

Obstacle == [salt : 1..(ObSaltMod - 1),
             state : {"empty", "processing", "processed", "removing"},
             shape : Shapes, touched : SUBSET TileRef, pending : SUBSET TileRef]
Request == [action : {"add", "remove"}, ref : ObRef]
MeshTile == [tile : TileRef, marks : SUBSET ObRef]

TypeOK ==
    /\ tiles \in [TileSlot -> [salt : 1..(TileSaltMod - 1), loc : Loc \cup {NoLoc}]]
    /\ freeTiles \in Seq(TileSlot)
    /\ posLookup \in [Cells -> SUBSET TileSlot]
    /\ obstacles \in [ObSlot -> Obstacle]
    /\ freeObs \in Seq(ObSlot)
    /\ reqs \in Seq(Request) /\ Len(reqs) <= MaxRequests
    /\ update \in Seq(TileRef) /\ Len(update) <= MaxUpdate
    /\ pc \in {"idle", "requests", "build"}
    /\ todo \in [ObSlot -> SUBSET TileRef]
    /\ mesh \in [Loc -> MeshTile \cup {NoMesh}]
    /\ built \in SUBSET TileRef
    /\ asked \in [ObSlot -> BOOLEAN]

----------------------------------------------------------------------------
(* References *)

RefOfTile(i) == [slot |-> i, salt |-> tiles[i].salt]
RefOfObstacle(o) == [slot |-> o, salt |-> obstacles[o].salt]

\* The salt check at the top of BuildNavMeshTile and RemoveTile.
ValidTileMut(ref) == tiles[ref.slot].loc # NoLoc
ValidTile(ref) == tiles[ref.slot].salt = ref.salt

\* salt = (salt + 1) & (mod - 1), and 0 is skipped: reference 0 means none.
NextSalt(salt, mod) == LET s == (salt + 1) % mod IN IF s = 0 THEN 1 ELSE s

\* References a client can hold: every incarnation handed out so far.
Handles == {r \in ObRef : \/ r.salt < obstacles[r.slot].salt
                          \/ /\ r.salt = obstacles[r.slot].salt
                             /\ obstacles[r.slot].state # "empty"}
TileHandles == {r \in TileRef : \/ r.salt < tiles[r.slot].salt
                                \/ /\ r.salt = tiles[r.slot].salt
                                   /\ tiles[r.slot].loc # NoLoc}

----------------------------------------------------------------------------
(* Compressed tiles *)

GetTileAt(l) == {i \in posLookup[l[1]] : tiles[i].loc = l}

\* Unlinking tile i from its hash chain.
UnlinkedMut(i) == posLookup
Unlinked(i) == [posLookup EXCEPT ![tiles[i].loc[1]] = @ \ {i}]

AddTile(l) ==
    /\ pc = "idle"
    /\ GetTileAt(l) = {}
    /\ freeTiles # <<>>
    /\ LET i == Head(freeTiles) IN
       /\ tiles' = [tiles EXCEPT ![i].loc = l]
       /\ posLookup' = [posLookup EXCEPT ![l[1]] = @ \cup {i}]
    /\ freeTiles' = Tail(freeTiles)
    /\ UNCHANGED <<obVars, reqs, update, pc, todo, mesh, built>>

RemoveTile(ref) ==
    /\ pc = "idle"
    /\ ref \in TileHandles
    /\ ref.salt <= TileSaltBound
    /\ ValidTile(ref)
    /\ LET i == ref.slot IN
       /\ posLookup' = Unlinked(i)
       /\ tiles' = [tiles EXCEPT ![i].loc = NoLoc,
                                 ![i].salt = NextSalt(@, TileSaltMod)]
       /\ freeTiles' = <<i>> \o freeTiles
    /\ built' = built \ {ref}
    /\ UNCHANGED <<obVars, reqs, update, pc, todo, mesh>>

----------------------------------------------------------------------------
(* Obstacle requests *)

RequestRoomMut == Len(reqs) <= MaxRequests
RequestRoom == Len(reqs) < MaxRequests

\* AddObstacle, AddBoxObstacle and AddBoxObstacleRot differ in geometry only.
AddObstacle(shape) ==
    /\ pc = "idle"
    /\ RequestRoom
    /\ freeObs # <<>>
    /\ obstacles[Head(freeObs)].salt <= ObSaltBound
    /\ LET o == Head(freeObs) IN
       /\ obstacles' = [obstacles EXCEPT ![o] =
            [salt |-> @.salt, state |-> "processing", shape |-> shape,
             touched |-> {}, pending |-> {}]]
       /\ reqs' = Append(reqs, [action |-> "add", ref |-> RefOfObstacle(o)])
       /\ asked' = [asked EXCEPT ![o] = FALSE]
    /\ freeObs' = Tail(freeObs)
    /\ UNCHANGED <<tileVars, update, pc, todo, mesh, built>>

\* The reference is not looked at until Update takes the request.
RemoveObstacle(ref) ==
    /\ pc = "idle"
    /\ ref \in Handles
    /\ RequestRoom
    /\ reqs' = Append(reqs, [action |-> "remove", ref |-> ref])
    /\ asked' = [asked EXCEPT ![ref.slot] =
                    @ \/ (ref.salt = obstacles[ref.slot].salt)]
    /\ UNCHANGED <<tileVars, obstacles, freeObs, update, pc, todo, mesh, built>>

----------------------------------------------------------------------------
(* Update: the request loop *)

TilesHit(shape) ==
    {RefOfTile(i) : i \in {j \in UNION Range(posLookup) : tiles[j].loc \in Hits[shape]}}

\* Which tiles make it into Touched when more than MaxTouched overlap depends
\* on the scan order, which is data: any choice of that many.
QueryTiles(shape) ==
    LET hit == TilesHit(shape) IN
    IF Cardinality(hit) <= MaxTouched THEN {hit}
    ELSE {t \in SUBSET hit : Cardinality(t) = MaxTouched}

UpdateCall ==
    /\ pc = "idle"
    /\ pc' = IF update = <<>> THEN "requests" ELSE "build"
    /\ UNCHANGED <<tileVars, obVars, reqs, update, todo, mesh, built>>

RequestLiveMut(req) == TRUE
RequestLive(req) == obstacles[req.ref.slot].salt = req.ref.salt

\* The body of the request loop up to its inner loop over the touched tiles.
TakeRequest ==
    /\ pc = "requests"
    /\ \A o \in ObSlot : todo[o] = {}
    /\ reqs # <<>>
    /\ LET req == Head(reqs)
           o == req.ref.slot IN
       \/ /\ ~RequestLive(req)
          /\ UNCHANGED <<obstacles, todo>>
       \/ /\ RequestLive(req)
          /\ req.action = "add"
          /\ \E touched \in QueryTiles(obstacles[o].shape) :
               /\ obstacles' = [obstacles EXCEPT ![o] =
                       [@ EXCEPT !.touched = touched, !.pending = {}]]
               /\ todo' = [todo EXCEPT ![o] = touched]
       \/ /\ RequestLive(req)
          /\ req.action = "remove"
          /\ obstacles' = [obstacles EXCEPT ![o] =
                  [@ EXCEPT !.state = "removing", !.pending = {}]]
          /\ todo' = [todo EXCEPT ![o] = obstacles[o].touched]
    /\ reqs' = Tail(reqs)
    /\ UNCHANGED <<tileVars, freeObs, asked, update, pc, mesh, built>>

\* The inner loop: a touched tile is queued (once) and becomes pending unless
\* the update queue is full.
QueueTile(o, ref) ==
    /\ pc = "requests"
    /\ ref \in todo[o]
    /\ todo' = [todo EXCEPT ![o] = @ \ {ref}]
    /\ IF Len(update) < MaxUpdate
       THEN /\ update' = IF ref \in Range(update) THEN update
                         ELSE Append(update, ref)
            /\ obstacles' = [obstacles EXCEPT ![o].pending = @ \cup {ref}]
       ELSE UNCHANGED <<update, obstacles>>
    /\ UNCHANGED <<tileVars, freeObs, asked, reqs, pc, mesh, built>>

\* nreqs = 0, and on to the rebuild, which nupdate == 0 skips.
RequestsTaken ==
    /\ pc = "requests"
    /\ \A o \in ObSlot : todo[o] = {}
    /\ reqs = <<>>
    /\ pc' = IF update = <<>> THEN "idle" ELSE "build"
    /\ UNCHANGED <<tileVars, obVars, reqs, update, todo, mesh, built>>

----------------------------------------------------------------------------
(* Rebuilding a tile *)

RasterisedMut(o) == obstacles[o].state # "empty"
Rasterised(o) == obstacles[o].state \notin {"empty", "removing"}

\* The obstacles cut out of the tile.
Marks(ref) == {RefOfObstacle(o) : o \in {p \in ObSlot :
                  Rasterised(p) /\ ref \in obstacles[p].touched}}

\* lmesh.NPolys == 0
NoPolys(l, marks) == \E m \in marks : l \in Fills[obstacles[m.slot].shape]

\* What a rebuild without errors leaves in the navigation mesh.
Baked(ref) == IF NoPolys(tiles[ref.slot].loc, Marks(ref)) THEN NoMesh
              ELSE [tile |-> ref, marks |-> Marks(ref)]

\* The outcome of BuildNavMeshTile(ref): "ok", or the error it returns.
Outcomes(ref) ==
    IF ~ValidTile(ref) THEN {"invalid"}
    ELSE {"ok"} \cup {f \in Faults : f = "add" => Baked(ref) # NoMesh}

BuildNavMeshTile(ref, outcome) ==
    /\ outcome \in Outcomes(ref)
    /\ mesh' = CASE outcome = "ok"  -> [mesh EXCEPT ![tiles[ref.slot].loc] = Baked(ref)]
                 [] outcome = "add" -> [mesh EXCEPT ![tiles[ref.slot].loc] = NoMesh]
                 [] OTHER -> mesh
    /\ built' = IF outcome = "ok" THEN built \cup {ref} ELSE built \ {ref}

\* A client's own call, with any reference it holds.  BuildNavMeshTilesAt is a
\* series of these over the tiles of a cell, up to the first error.
BuildTile(ref) ==
    /\ pc = "idle"
    /\ ref \in TileHandles
    /\ \E outcome \in Outcomes(ref) : BuildNavMeshTile(ref, outcome)
    /\ UNCHANGED <<tileVars, obVars, reqs, update, pc, todo>>

InFlux(ob) == ob.state \in {"processing", "removing"}

\* Remove handled tile from pending list.
DrainedMut(ob, ref) ==
    IF ob.state = "processing" THEN [ob EXCEPT !.pending = @ \ {ref}] ELSE ob
Drained(ob, ref) ==
    IF InFlux(ob) THEN [ob EXCEPT !.pending = @ \ {ref}] ELSE ob

\* If all pending tiles processed, change state.
FinishedMut(ob) == InFlux(ob)
Finished(ob) == InFlux(ob) /\ ob.pending = {}
Settled(ob) ==
    IF ~Finished(ob) THEN ob
    ELSE IF ob.state = "processing" THEN [ob EXCEPT !.state = "processed"]
    ELSE [ob EXCEPT !.state = "empty", !.salt = NextSalt(@, ObSaltMod)]

\* Freed slots are pushed in index order, so the last one is found first.
Descending(S) ==
    {q \in [1..Cardinality(S) -> S] :
        /\ Range(q) = S
        /\ \A i, j \in 1..Cardinality(S) : i < j => q[i] > q[j]}

\* The obstacles whose removal is complete once ref is rebuilt.
FreedByMut(ref) == {o \in ObSlot : Finished(Drained(obstacles[o], ref))}
FreedBy(ref) == {o \in ObSlot : /\ obstacles[o].state = "removing"
                                /\ Finished(Drained(obstacles[o], ref))}

\* The head of the queue is dropped whatever the rebuild returned.
DequeuedMut(outcome) == IF outcome = "ok" THEN Tail(update) ELSE update
Dequeued(outcome) == Tail(update)

Rebuild ==
    /\ pc = "build"
    /\ LET ref == Head(update) IN
       /\ \E outcome \in Outcomes(ref) :
             /\ BuildNavMeshTile(ref, outcome)
             /\ update' = Dequeued(outcome)
       /\ obstacles' = [o \in ObSlot |-> Settled(Drained(obstacles[o], ref))]
       /\ \E order \in Descending(FreedBy(ref)) : freeObs' = order \o freeObs
    /\ pc' = "idle"
    /\ UNCHANGED <<tileVars, asked, reqs, todo>>

----------------------------------------------------------------------------

Init ==
    /\ tiles = [i \in TileSlot |-> [salt |-> 1, loc |-> NoLoc]]
    /\ freeTiles = [i \in 1..MaxTiles |-> i]
    /\ posLookup = [c \in Cells |-> {}]
    /\ obstacles = [o \in ObSlot |->
          [salt |-> 1, state |-> "empty", shape |-> CHOOSE s \in Shapes : TRUE,
           touched |-> {}, pending |-> {}]]
    /\ freeObs = [o \in 1..MaxObstacles |-> o]
    /\ reqs = <<>> /\ update = <<>>
    /\ pc = "idle" /\ todo = [o \in ObSlot |-> {}]
    /\ mesh = [l \in Loc |-> NoMesh]
    /\ built = {} /\ asked = [o \in ObSlot |-> FALSE]

UpdateStep ==
    \/ TakeRequest
    \/ \E o \in ObSlot, ref \in TileRef : QueueTile(o, ref)
    \/ RequestsTaken
    \/ Rebuild

ClientStep ==
    \/ \E l \in Loc : AddTile(l)
    \/ \E ref \in TileRef : RemoveTile(ref)
    \/ \E shape \in Shapes : AddObstacle(shape)
    \/ \E ref \in ObRef : RemoveObstacle(ref)
    \/ \E ref \in TileRef : BuildTile(ref)

Next == ClientStep \/ UpdateCall \/ UpdateStep

Spec == Init /\ [][Next]_vars

\* The game loop calls Update every frame and a call returns.
FairSpec == Spec /\ WF_vars(UpdateCall) /\ WF_vars(UpdateStep)

----------------------------------------------------------------------------
(* Properties *)

\* Obstacle slots are neither lost nor handed out twice: the free chain holds
\* each empty slot exactly once and nothing else (AddObstacle, Update).
ObstacleSlotsExact ==
    /\ IsInjective(freeObs)
    /\ Range(freeObs) = {o \in ObSlot : obstacles[o].state = "empty"}

\* Tile slots likewise; a used slot is chained under its own cell only, and no
\* two tiles claim one location (AddTile, RemoveTile).
TileSlotsExact ==
    /\ IsInjective(freeTiles)
    /\ Range(freeTiles) = {i \in TileSlot : tiles[i].loc = NoLoc}
    /\ \A c \in Cells, i \in TileSlot :
          i \in posLookup[c] <=> tiles[i].loc # NoLoc /\ tiles[i].loc[1] = c
    /\ \A i, j \in TileSlot :
          tiles[i].loc = tiles[j].loc /\ tiles[i].loc # NoLoc => i = j

\* What an obstacle in flux waits for is on its way: every pending tile is in
\* the update queue, so draining the queue drains the obstacle (Update).
PendingIsQueued ==
    \A o \in ObSlot : InFlux(obstacles[o]) =>
        obstacles[o].pending \subseteq Range(update)

\* A removal request only ever hits the obstacle it was made for: an obstacle
\* leaves only after RemoveObstacle was called with its own reference, never by
\* a stale reference to an earlier user of its slot.
RemovedOnRequest ==
    \A o \in ObSlot : obstacles[o].state = "removing" => asked[o]

\* What the mesh holds for a cached tile: once built without error and with no
\* rebuild queued, exactly the obstacles that are present and touch it.
TileFresh(i) ==
    LET ref == RefOfTile(i) IN
    (/\ tiles[i].loc # NoLoc
     /\ ref \in built
     /\ ref \notin Range(update)
     /\ \A o \in ObSlot : ref \notin todo[o])
    => mesh[tiles[i].loc] = Baked(ref)
MeshReflectsObstacles == \A i \in TileSlot : TileFresh(i)

\* An obstacle's slot is not given up while its shape is still cut out of a
\* mesh tile: marks in built tiles belong to obstacles still in their slots.
NoGhostMarks ==
    \A i \in TileSlot :
        LET ref == RefOfTile(i)
            m == mesh[tiles[i].loc] IN
        tiles[i].loc # NoLoc /\ ref \in built /\ m # NoMesh =>
            \A r \in m.marks : /\ obstacles[r.slot].salt = r.salt
                               /\ obstacles[r.slot].state # "empty"

\* Requests do not wait for ever behind the tiles to rebuild (Update).
RequestsHandled == reqs # <<>> ~> reqs = <<>>

\* The removal of an obstacle that touches some tile completes: its slot is
\* freed, under a new salt, once all its tiles were rebuilt (Update).  One that
\* touches no tile queues no rebuild, and keeps its slot.
RemovalCompletes ==
    \A o \in ObSlot :
        (obstacles[o].state = "removing" /\ obstacles[o].touched # {})
            ~> obstacles[o].state = "empty"

\* "adding and removing obstacles at runtime by rebuilding affected tiles":
\* when Update has returned true, every tile built without error shows the
\* obstacles that touch it.
UpToDateMeansRebuilt ==
    pc = "idle" /\ update = <<>> /\ reqs = <<>> => MeshReflectsObstacles
=============================================================================
