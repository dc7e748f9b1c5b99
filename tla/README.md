# A verification of the Go Recast/Detour port

The repository is a Go port of recastnavigation: package `recast` turns
triangles into polygons, `detour` keeps those polygons in a tiled navigation
mesh and searches it, `detour_crowd` moves agents along the paths found, and
`detour_tile_cache` rebuilds tiles while obstacles come and go.  Nothing in it
runs in parallel: every operation is one call from a game loop.  What is hard is
that each call does a bounded piece of work (one tile, 100 iterations, two
frames of waiting) and leaves the rest to later calls, so client calls, removals
and reused slots fall between the pieces, and that everything lives in arrays of
fixed size whose slots are named by salted references.

Contents: 1 inventory, 2 how the parts interact, 3 modules, 4 runs and bounds,
5 fairness, 6 proofs, 7 where code and documentation disagree, 8 what is not
modelled, 9 plan.

## 1. Inventory

| Component | State | Operations | What is hard | What makes it correct |
|---|---|---|---|---|
| tile cache (`detour_tile_cache/tile_cache.go`, `types.go`) | compressed tiles, obstacles, their free chains and salts, request array, update array | `AddTile`, `RemoveTile`, `AddObstacle` (three kinds), `RemoveObstacle`, `Update`, `BuildNavMeshTile(sAt)` | requests wait for rebuilds and rebuilds for requests; slots and references are reused meanwhile; rebuilds fail; arrays fill up | slots neither lost nor shared; a removal hits its own obstacle; the mesh shows the obstacles present; work queued gets done |
| navigation mesh tiles (`detour/navmesh.go`, `types.go`) | tile slots with salts, hash buckets, link pools | `Init`, `AddTile`, `RemoveTile`, lookups, poly flags, `StoreTileState`/`RestoreTileState` | links are made and cut in both directions as tiles come, go and are restored; pools run dry | references keep their meaning; links depend on the tiles present, not on history; pools do not leak |
| mesh queries (`detour/navmesh_query.go`) | node pool, open list, `QueryData` of one sliced search | `FindPath`, the sliced search, ray casts, straight paths | one `QueryData` serves every user of the query | a path answers the request it was searched for; paths lead from the start; what can be reached is found |
| node pool and open list (`detour/node.go`) | nodes by index, heap | `GetNode`, `Push`, `Pop`, `Modify` | totals change inside the heap, the pool is exhausted | the heap holds the open nodes, in heap order |
| path queue (`detour_crowd/path_queue.go`) | eight slots, handle counter, head | `Request`, `Update`, `GetRequestErr`, `GetPathResult` | slots abandoned by their clients; a search shared by all slots; handles wrap | answers go to their request; slots come back |
| crowd (`detour_crowd/crowd.go`, `crowd_agent.go`) | agents with state, target state, corridor | client requests, `Update` in its phases | a request may be replaced, cancelled or its agent removed at any time, and three kinds of search share one query | agents follow their own path, nobody is forgotten, requests are decided |
| path corridor (`detour_crowd/path_corridor.go`) | polygon references `path[:npath]`, position, target | `Reset`, `SetCorridor`, moves of start and end, two kinds of short cut, `FixPathStart`, `TrimInvalidPath`, `IsValid` | five ways to cut and paste one array of bounded length, with references that tiles may outdate | polygons stay linked, none is entered and left again, start and end are the agent's and the target's |
| local boundary, proximity grid, avoidance | sorted bounded arrays, hash grid | insertions, queries, sampling | full arrays | nearest entries are kept |
| mesh builder (`detour/navmesh_builder.go`) | none | `CreateNavMeshData` | counts that size the link pool | pool is large enough, BV tree bounds its leaves |
| layer builder (`detour_tile_cache/tile_cache_builder.go`) | none between calls | obstacle marks, regions, contours, mesh of one layer | its own copy of the geometry, on cells instead of spans, with arrays of fixed size | regions partition the layer; the mesh covers what is walkable; neighbours are mutual |
| heightfield (`recast/rasterization.go`, `filter.go`, `recast.go`) | span lists by column, compact spans and connections | `addSpan`, three filters, `BuildCompactHeightfield` | triangles come in any order; a span may touch several | columns are disjoint and the union of what was added; connections lead back |
| areas, regions, layers (`recast/area.go`, `region.go`, `layers.go`) | arrays over spans: area, distance, region, layer | erosion, marks, median; distance field, watershed, monotone and layer sweeps, merging; `BuildHeightfieldLayers` | arrays changed while they are scanned, ids of a byte, merges that change what is merged next | regions are connected, cover the ground, large ones survive; layers hold each span once |
| contours, meshes (`recast/contour.go`, `mesh.go`, `mesh_detail.go`) | contours; vertices and polygons | tracing, simplifying, holes; triangles, merging, vertex removal, adjacency, merging of tiles | two regions simplify a shared line separately; holes and vertices are cut out one at a time | contours meet and enclose their region; polygons are convex and cover it; neighbours are mutual |
| debug drawing (`debug_utils`), shared mathematics (`detour/common.go`) | none | output; float geometry | none | none stated |

PROJECT.json lists for each whether it is modelled, and every hazard with its
line.

## 2. How the parts interact

    client --AddObstacle/RemoveObstacle--> TileCache.reqs --Update--> update queue
                 TileCache.Update --BuildNavMeshTile--> NavMesh.RemoveTile, AddTile
    client --RequestMoveTarget--> Crowd agent --updateMoveRequest--> PathQueue.Request
                 Crowd.Update --PathQueue.Update--> NavMeshQuery (sliced search) --reads--> NavMesh
                 Crowd quick search, OptimizePathTopology --------> the same NavMeshQuery

    corridor:   Crowd --SetCorridor, MovePosition, Optimize...--> PathCorridor --asks--> NavMeshQuery
                 checkPathValidity --IsValid, FixPathStart--> PathCorridor; tile rebuilds outdate its references
    build:      triangles --addSpan--> Heightfield --filters--> CompactHeightfield --areas, distance-->
                 regions --> contours --> PolyMesh                                (package recast)
                 or CompactHeightfield --BuildHeightfieldLayers--> layers --> compressed tiles
                 --BuildNavMeshTile: obstacles, regions, contours, mesh--> NavMesh.AddTile

All are direct calls.  The mutable state that is shared is the navigation mesh
(written by the tile cache, read by queries) and the `QueryData` of the query; the
steps of a build hand their arrays on from one to the next.

## 3. Modules

| Module | Models | Extends / instantiates |
|---|---|---|
| `TileCache` | the tile cache | |
| `TileCacheProofs` | theorems about requests, queue, slots and the mesh | `TileCache` |
| `TileData` | what a piece of tile data says about polygons, and the links it demands | |
| `TileDirectory` | what a mesh promises about tiles (abstract) | `TileData` |
| `NavMesh` | slots, references, buckets, links and pools of the mesh | `TileData`; INSTANCE `TileDirectory` |
| `NavMeshProofs` | theorems about it, the refinement among them | `NavMesh` |
| `PathQueue` | the queue and the sliced search it shares | |
| `Crowd` | move requests and the phases of `Crowd.Update` | `PathQueue` |
| `CrowdProofs` | theorems about both | `Crowd` |
| `OpenList` | the binary heap of nodes, as operators | |
| `PathSearch` | the A* search in slices, with its node pool | `OpenList` |
| `WholeSearch` | the search in one call, and what it is to the slices | `PathSearch` |
| `PathSearchProofs` | theorems about heap and search | `WholeSearch`, `Induction` |
| `Induction` | lemmas on induction and recursive functions, about no component | |
| `Corridor` | the path corridor over a mesh whose tiles are rebuilt | |
| `AgentCorridor` | the corridor with the crowd's late answers appended | `Corridor` |
| `CorridorProofs` | theorems about both | `AgentCorridor`, `Induction` |
| `Heightfield` | columns of spans, rasterization, filters | |
| `CompactField` | compact spans, connections, areas | `Heightfield`, `Plane` |
| `FieldProofs` | theorems about columns and connections | `FieldBuild` |
| `Partition` | distance field, watershed and sweeps, as operators | `CompactField` |
| `Regions` | merging and filtering of regions, as operators | `Partition` |
| `LayerSet` | `BuildHeightfieldLayers` as operators | `Regions` |
| `Plane` | integer geometry in the x/z plane | |
| `Contours` | tracing, simplifying, holes, as operators | `Regions`, `Plane` |
| `MeshEdges` | the edges of polygons, their neighbours and portals, as operators | |
| `PolyMesh` | triangulation, merging, vertex removal, merging of tiles, as operators | `Plane`, `MeshEdges` |
| `LayerMesh` | the builder of the tile cache, where it differs | `LayerSet`, `Contours`, `PolyMesh` |
| `FieldBuild` | the calls from triangles to a compact field with its areas, as actions | `CompactField` |
| `RegionBuild` | ... and from there to a field divided into regions | `FieldBuild`, `Partition` |
| `BuildProofs` | theorems about the division and about neighbours | `RegionBuild`, `FieldProofs`, `MeshEdges` |
| `Build` | ... to the regions that are kept | `RegionBuild`, `Regions` |
| `MeshBuild` | ... and from regions to a mesh | `Build`, `Contours`, `PolyMesh` |
| `LayerBuild` | ... and through layers to the mesh of a tile | `MeshBuild`, `LayerMesh` |
| `Pipeline` | both ways composed, and their properties | `LayerBuild` |
| `MCTileCache`, `MCNavMesh`, `MCPathQueue`, `MCCrowd`, `MCPathSearch`, `MCCorridor`, `MCBuild` | instances for TLC | the module they name |

**TileCache.**  `tiles`, `obstacles`, `reqs`, `update` are the arrays of the
struct; `freeTiles` and `freeObs` are the free chains in order, because the
order decides which slot is reused; hash chains, `Touched` and `Pending` are
sets, because the code only searches them.  A reference is the record that
`encodeTileId` packs.  `Update` is a call of several steps with a program counter:
`UpdateCall` enters it (with the code's `nupdate == 0` test), `TakeRequest` is
one round of the request loop, `QueueTile` one round of its inner loop,
`RequestsTaken` leaves the loops, and `Rebuild` is the rest: rebuild the head of
`update`, drop it, drain it from the pending lists, and settle the obstacles
whose list is empty.  Client actions need `pc = "idle"`.  A rebuild may return
each error the code can: a stale reference, any failure before the old navmesh
tile is removed ("build") and a refusal of the new one after that ("add").
`mesh[l].marks` is the set of obstacles cut out of the tile at `l`, which is what
a client can see of them.  `built` and `asked` are history variables.

**TileData, NavMesh.**  Geometry is reduced to portals: an edge on a side of a
tile covers some units of the border and meets the portals that cover one of
them from the other side; `findConnectingPolys` takes the first four polygons, in
polygon order.  `AddTile` is the whole function: slot (first free, or
the one `lastRef` names, whose salt it restores), bucket, inner links, and links
to and from every tile in the same cell and around.  Where a pool has too few
links, any choice of links is lost (the code's choice is a matter of scan order).
`RemoveTile` cuts the links of neighbours, returns them to their pools, counts
up the salt and frees the slot.  A panic (nil `Header`, missing `OffMeshCons`)
ends the behaviour.

**TileDirectory** says what clients rely on: one tile per place, a reference is
never given to a second tile unless the client restores it, and the polygon graph
is a function of the tiles present.  `NavMesh` implements it under
`present <- Present, used <- issued, graph <- links` when pools are ample.

**PathQueue.**  A path is named by the request whose search found it, so that the
result of a search that was taken over can be told apart.  `search` is
`QueryData`: request, iterations still needed, error.  `Work` and `End` give for
each request how long its search takes and how it ends (goal found, open list
drained, out of nodes).  `stale` is the set of requests that `FindPathSliced` refuses at
the time, because one of their ends is no longer in the mesh; it leaves the query as it
was then.  `MeshChange` sets it to any of `Outdates`.  `UpdateCall` begins `Update`; each
`Visit` is one round of its loop.

**Crowd.**  `Crowd.Update` passes the phases of the code in order: `check`
(`checkPathValidity`), `fire` and `submit` (first half of `updateMoveRequest`),
`visit` (`pathQueue.Update`), `results` (second half), `optimize`.  In each phase
agents take their turn in index order.  Steering, avoidance and integration
neither read nor write target state, queue or search and are left out.  What
`checkPathValidity` finds depends on geometry, so it may notice any of its
cases.  Or nothing, for it does not look at salts: `RefuseRequests` puts requests out of
date between two calls of `Update`, and agents go on asking for them.  `Changes` bounds
both together.  `lost` is a history variable: the agent's own last search was refused.

**OpenList, PathSearch.**  Where `PathQueue` treats a search as so many rounds of
work, `PathSearch` shows what the rounds do.  `search.nodes` is the pool, a node
being named by its `Pidx` (index plus one), `search.open` the heap with positions
from 1, so that the loops of `bubbleUp` and `trickleDown` become sets of positions
along one path of the tree: `Above` is the set of a position's ancestors, `Hole` the
way down along which children take their parents' places.  `Relax` is the body of the loop over a polygon's
links, `Round` the body of the loop over the open list, `Iterate` one round of a
running `UpdateSlicedPath(maxIter)`, `Return` its end without the goal.
`FindPath` (in `WholeSearch`) is the loop of the whole search: `Pass` is one time round it,
with the same `Round`, and it serves as the reference for the slices.  `rounds` is a
history variable, the number of rounds done, which says how often the loop goes round.  Positions lie on a line and costs are scaled to
integers, in units of which `H_SCALE` has `HScale`; hash chains are left out, because they
only serve to find a node.  `search.short` is a history variable.

**Corridor, AgentCorridor.**  A reference is a place in the mesh with the salt its
tile slot had.  `salt`, `held` and `open` are all of the mesh that queries look at:
`Current` is `NavMesh.IsValidPolyRef`, which compares salts; `Passes` is
`NavMeshQuery.IsValidPolyRef`, which does not.  Positions are named by the polygon
they lie in.  What a walk, a ray or a search crosses is geometry, so any walk over
linked polygons is possible (`Walked`), of which `MoveAlongSurface` reports the
first `maxVisited`.  The merges `StartMoved`, `EndMoved` and `StartShortcut` are
functions of path, walk and the common polygon; `Furthest`, `Nearest` and `PlaceOn`
find it as the loops do.  A call that would index an empty slot is not made, because
the program ends there.  `cut`, `astray` and `misled` are history variables: they
remember what parted the corridor from its target, its agent or the
links.  `SetCorridor` takes whatever it is given, as in the code.  Its callers are
`QuickPath` and `OnlyFirst`, the two ends of the quick search of `updateMoveRequest`, and
`TakeResult`.  The quick search begins at the corridor's first polygon, wherever the agent
is; that the corridor then starts at the agent is for the invariant to show, not for a
guard.  If the first polygon or the goal is outdated the search is refused, and any
path of `Leftovers` whose references the mesh has given out (`Issued`) becomes the corridor.
`TakeResult` is the second half of `updateMoveRequest`: `Untracked`
removes trackbacks by a stack, which is what the code's loop amounts to when it goes
two places back after each removal.

**Heightfield to Pipeline.**  Numbers are scaled to integers and a triangle is what
clipping makes of it, a range of heights in each of some cells; a scene is a set of
such shapes, rasterized in any order.  From there on nothing depends on chance, so
that the arrays become functions on spans and the loops become folds or choices of
the first place in their order; each call of the program is one action of
`FieldBuild`, `RegionBuild`, `Build`, `MeshBuild` or `LayerBuild`, with a level of the watershed, a row of the sweeps, the
polygons of a contour and the removal of a vertex as actions of their own.  `stage`
is the last call made, `plan` how the program makes them (builder, border, areas,
radius, errors, obstacles).  Where the code runs out of an array and panics or
returns an error, `stage` says so and nothing follows.  Simplifying and removing need
comparisons of distances, which are fractions compared by multiplication.  `LayerMesh` is
written as the difference to `Contours` and `PolyMesh`: the tile cache's code is a
copy with cells for spans, lists of fixed size, another removal loop and portals
found from the layer's bits.  Its `removeVertex` copies over a removed polygon all that
follows the last one, to the end of the array: `mesh.spare` holds the slots behind the
last polygon, and `Overwritten` is that copy.  In `canRemoveVertex` of `recast` the edges
at a vertex may be more than the array made for them has room for (`EdgesOverrun`), a panic
like the one in `removeVertex`.

## 4. Runs and bounds

| Run | Question | Instance | States |
|---|---|---|---|
| `tc_obstacles` | Are slots, requests, queue and mesh consistent for every order of calls and failing rebuilds? | 2 cells, 2 tiles, 2 obstacle slots used twice (`ObSaltBound` 2), shapes over both tiles, one of which leaves no polygon, request array of 2 | 4.0 M |
| `tc_liveness` | The same while tiles are removed and added again and `NavMesh.AddTile` fails; are requests taken, and removals completed? | tile slots used twice (`TileSaltBound` 1), one shape over both tiles, 2 obstacles | 204 097 |
| `tc_overflow` | Does "up to date" mean rebuilt? (violated) | update queue of 1 | stops |
| `nm_tiles` | Does the mesh implement the directory, with pools that run dry? | 4 pieces of data, two of them for one place and one in a second layer, 3 slots, one bucket so that cells collide, each slot used up to three times, pools of 1 and 3 links | 7 463 |
| `cr_moves` | Do agents follow their own paths, is nobody forgotten, do slots come back? | 2 agents, 2 queue slots, 4 handles, targets near (found by the quick search), far (one Update), slow (more than one) and unreachable; 4 client calls, 1 change of the mesh, noticed or one that puts the far requests or those of agent 2 out of date | 3.5 M |
| `cr_slow` | Is every request decided? (violated) | one agent, slow target | 764 |
| `pq_owner` | Does a path answer its request? (violated) | queue of 2, one slow and one quick request | stops |
| `ps_search` | Do slices find what one call finds, along paths that lead back, with a sound heap? | 2187 meshes of up to 7 edges over 5 polygons in 3 tiles, each edge absent or with its midpoint at one of two places, a filtered short cut; pools of 3 and 8 nodes, slices of 1 and 3 rounds | 82 407 |
| `pc_corridor` | Does a corridor stay a path from agent to target? | 4 places in a ring, one of them rebuilt with other links; `maxPath` 4, `maxVisited` 3, 2 changes of the mesh, every walk of up to 4 polygons | 165 401 |
| `pc_stale` | Are references that `IsValid` accepts current? (violated) | the same | stops |
| `rc_build` | Is what each step of a build hands on what the next relies on? | grid of 7 by 5; 44 scenes of ground with or without a hole and up to two of six things on it (two pillars, a block, a terrace, a bridge, water); 12 plans over all three kinds of regions and the tile cache | 20 757 |
| `rc_border` | Are border vertices removed? (violated) | grid of 7 by 5 with a border | stops |

Why these bounds are enough for the cases of interest: two obstacles, tiles,
agents or queue slots are needed for one to disturb another; a slot must be used
twice for a stale reference to meet its successor, and a third time for one to
come back; a request array of two lets a request wait behind another; an update
array of one overflows with two tiles.  `MaxTiles = 3` with three places lets
the free list be taken from its middle.  One iteration of a search stands for
twenty of the code, so the quick search has 1, topology optimisation 2 and the
queue 5.  `HandleMod = 5` is small on purpose: handles wrap several times in a
behaviour while abandoned slots still hold old ones.  Salts are bounded by
`TileSaltBound`, `ObSaltBound`, `SaltBound` (a slot that reached it stays as it
is); client calls by `Calls`; mesh events by `Changes`.  In `ps_search` a pool of 3
runs out in most meshes and one of 8 in none; the end can be entered by two
sides, so that it has two nodes; midpoints that coincide give edges of no length
and equal totals; one polygon is so cheap that a detour through it opens closed nodes
again.  `MaxPath` is long enough for every path: a shorter array loses the start of
it (`getPathToNode` fills it from the end).

Four places let a walk of three polygons leave a corridor, come back to it and
leave it elsewhere, and `maxPath` 4 is exceeded by most merges.  A rebuilt polygon with
other links is what an outdated reference must not be taken for.  The grid of
`rc_build` has room for two regions beside each other, a hole of
two cells, a bridge over ground and a border all around, and one column more, with which
vertices of tiles are removed too; `OverlapLimit`,
`NeighbourLimit`, `Stacks` and the other limits are the code's, or small enough to be
met.  The runs of `NavMesh` and of the builds
switch deadlock checking off, because the salt bound, or the end of a build, ends
every behaviour; no other run needs that.

What the runs show is stated at each property.  The less obvious ones:

* `MeshReflectsObstacles`: a tile that was built without error and is not queued
  shows exactly the obstacles present, although an obstacle may become
  `Processed` before its own request is taken.
* `NoGhostMarks`: a slot is not freed while its shape is still in a built tile.
* `PoolsBalance`, `IsDirectory`: hold even when links are lost one-sidedly; the
  graph the directory promises is then the one the tiles call for less what the
  dry pools could not hold.
* `WaitsForOwnRequest`: an agent never waits on a slot that somebody else got,
  which needs the ageing of slots, the handle counter and the order of phases.
* `FollowsOwnPath`: holds although every search overwrites the others', because
  an agent never waits for its path across two Updates (see section 7).  Searches that
  are refused harm only the agent they are refused to (`lost`).
* `StartsAtAgent`: quick searches start at the corridor's first polygon and are taken
  without a look at the agent; it is the other operations that keep the two together.

* `PathsLeadBack`: nodes get new parents while they are open and after they were
  closed, and still no node becomes its own ancestor, even with a full pool.
* `BestIsNearest`: a partial path ends as near to the target as the search came.
* `SlicingIrrelevant`: also for searches that were begun anew half-way.
* `ReopenedCheaper`: why a search ends, stated as what a round may never do.
* `CorridorIsPath`: the seam of every merge lies at a polygon both parts contain,
  also where the walk itself crosses the corridor several times, and the appended
  answer has its trackbacks taken out; only a query that took an outdated reference
  for another polygon (`misled`) can break it.
* `ColumnsAreUnions`: a column is solid exactly where some piece of a triangle is,
  whatever the order of `addSpan`; areas are not part of it, because the merge of areas
  does depend on the order.
* `DistancesExact`: two sweeps are enough; for erosion and for regions.
* `NoGroundLeft`, `LargeRegionsStay`: what partitioning may leave out (unreachable
  leftovers of the watershed) and what filtering may give up (small islands).
* `ContoursMeet`: two regions simplify their common line to the same vertices, though
  one walks it forwards and the other backwards.
* `PolygonsCover`: the polygons have the area of their contours, with the exception of
  holes of one cell, which the code does not see as holes.
* `LayersExact`: every walkable span lies in one cell of one layer, and its
  connections are split exactly into those inside the layer and portals.

Each property of a passing run has a mutant in PROJECT.json: a plausible bug in
the code that the run then finds.

## 5. Fairness

`TileCache!FairSpec` and `Crowd!FairSpec` assume weak fairness of entering
`Update` and of its inner steps: the program is a game loop that calls `Update`
every frame, and a call returns because its loops are bounded.  Nothing is assumed
of client calls.  `QueueTile` and the other steps are covered by one condition
because a call always has exactly one next step.

## 6. Proofs

Eight modules hold proofs that TLAPS checks, for every value of the constants that
satisfies the assumptions named in the modules.

| Theorem | States | Provided that |
|---|---|---|
| `TypeCorrect` | `TypeOK` of `TileCache`; in particular the arrays never outgrow their capacity and no salt becomes 0 | |
| `PendingQueued` | `PendingIsQueued` | |
| `ObstacleSlots`, `RemovalOnlyOnRequest` | `ObstacleSlotsExact`, `RemovedOnRequest` | obstacle salts do not wrap |
| `NextSaltNonZero` | the successor of a salt is a salt, not 0, and another one | |
| `TileSlots` | `TileSlotsExact` | |
| `MeshShowsObstacles`, `NoGhosts` | `MeshReflectsObstacles`, `NoGhostMarks` | no salt wraps, and the update queue has room (`RoomToQueue`) |
| `MeshTypes`, `MeshSlots`, `PoolsStayBalanced` | `TypeOK`, `SlotsExact`, `PoolsBalance` of `NavMesh` | |
| `StaleRefused` | `StaleRefsRefused` | `SaltsGrow` |
| `NoPanic` | the mesh never panics | `SaltsGrow`, no off-mesh connections |
| `MeshImplementsDirectory` | `NavMesh` implements `TileDirectory` (`IsDirectory`) | `SaltsGrow` |
| `CrowdTypes`, `NobodyLeftBehind` | types of `Crowd`; `NobodyForgotten` | |
| `OwnRequestQueued` | `WaitsForOwnRequest` | `MaxAgents < HandleMod` |
| `OwnPathFollowed` | `FollowsOwnPath`, refused searches included | the same, `HandlesDistinct` |
| `SearchTypes`, `OpenListStaysExact` | `TypeOK` of `PathSearch`; `OpenListExact` | |
| `PathsLeadToStart`, `BestStaysNearest`, `EndIsFound` | `PathsLeadBack`, `BestIsNearest`, `FindsWhatIsThere` | |
| `NodesOnlyGetCheaper` | the action property `ReopenedCheaper` | |
| `SlicesFindTheSame` | `SlicingIrrelevant` of `WholeSearch` | |
| `SpansSeparated`, `NothingLostInColumns` | `Separated`, `ColumnsAreUnions` | |
| `BuiltConnectionsLeadBack` | `ConnectionsLeadBack`, of every build | `WalkableClimb < WalkableHeight` |
| `ConnectionsMutual` | connections of any compact field lead back | the same |
| `GroundIsDivided` | `NoGroundLeft` of `RegionBuild` | |
| `NeighboursLeadBack` | `Mutually` for the neighbours of any mesh, of one with portals and of a merged one | at most 32 768 polygons |
| `CorridorStaysPath`, `CorridorStartsAtAgent`, `CorridorEndsAtTarget` | `TypeOK` and `CorridorIsPath`; `StartsAtAgent`; `EndsAtTarget`; of the corridor with late answers (`AgentSpec`) | |

Where no module's name is given, the property is defined in the module the proofs are
about.  None of the conditions is idle, and every instance that a run checks meets
them (`nm_tiles` has no off-mesh data; in `tc_overflow`, which shows a violation, the
queue has no room):

* *Salts do not wrap* (`TileSaltBound < TileSaltMod - 1` and so on): after a whole round
  of 2^16 salts the code, too, takes an old reference for the new occupant's.
* `SaltsGrow` adds that clients restore only the newest reference of a slot
  (`AnyLastRef = FALSE`); otherwise the salt is wound back (section 7).
* `RoomToQueue` says that a touched tile never finds the update queue full.  The code
  drops it then; `tc_overflow` shows the mesh that comes of it.  TLC finds it true in all
  states of `tc_obstacles`.
* `MaxAgents < HandleMod`, `HandlesDistinct`: one Update cannot give out all handles, and
  no handle comes round while an old slot still holds it.  The code has 2^32 handles and
  a slot is held for a few frames.  TLC finds `HandlesDistinct` true in all states of
  `cr_moves`, in spite of its four handles.

**Tile cache.**  *Type correctness* is inductive together with `WorkToDo` (`pc = "build"`
only with a non-empty queue), without which `Head(update)` need not be a reference.
*PendingQueued* needs that `Rebuild` drains the very tile it dequeues and that a
tile is pending only if it was queued; the lemmas on `Append` and `Tail` carry the
elements of the sequence.  *Obstacle slots and removals* need the invariant `SlotInv`:
`ObstacleSlotsExact` and `RemovedOnRequest` alone are not inductive, because
nothing keeps a queued request from naming a later user of its slot.  `SlotInv`
adds that every queued request is as old as its slot's salt or older, that it is
equal only while the slot is in use, and that a removal with the current salt
was asked for (`RequestsSound`), and that slots in use have salts below the bound
(`SaltsBounded`).

*The mesh* needs three layers.  `KnownInv` relates the tiles named anywhere (`built`,
touched lists, the tiles still to queue) to references that were handed out.  `AddsFresh`
says that an obstacle whose request waits has not touched a tile yet and waits only once.
`MeshInv` then says of each tile that was built (`Shown`): undisturbed, it shows what a
rebuild would (`Baked`), and each of its marks is backed by an obstacle that still has the
salt of the mark and, if it is leaving, waits for this very tile (`Backed`).  A shown
obstacle can therefore be freed only after the tile was rebuilt without it; and a rebuild
of another tile cannot disturb the tile, because a slot freed there had nothing pending
here.

**Navigation mesh.**  `SlotInv`, types and `SlotsExact`, is inductive: a free list
without repetition and the slots in use divide the slots; taking the first or the
middle one (`lastRef`) keeps both.  `SaltInv`, that references issued are no newer than
their slot's salt and older once its tile is gone, gives `StaleRefsRefused`; and `NoPanic`,
since only a stale reference could meet an empty slot.  `GraphInv` is the heart of the
refinement: `links \cup missing = Graph(Present)`, that is, the links made and the links
refused are together exactly those that the tiles present ask for.  `AddGraph`
and `RemoveGraph` show that `Graph` grows and shrinks by the links the code makes and
cuts (in both directions: of its own tile, and of every neighbour).  With it every step of
`NavMesh` is a step of `TileDirectory` or changes nothing that it shows; `StaleRefused`
supplies that no reference is given out twice.  *PoolsBalance* needs no salts, only that
links are finitely many and are held by the tile they start at; the choice of `Lost`
links leaves the room each pool had (`MadeFitRoom`).  `DataAssumption` demands that the
portals of a piece of data are finitely many.

**Crowd.**  Nobody is forgotten because waiting has its place in the Update (`TurnInv`):
in `submit` the agents before the one whose turn it is, in `visit` any, in `results` those
from it on; the calls of clients, which could interfere, come when `pc = "idle"`.
`AskInv` carries each waiting agent's slot through the call: the slot holds its handle
and its own request (`Serves`), is not answered before its visit, and is not given up,
because that takes two visits after its answer; `Age` measures how long ago a handle was
given out, so that two waiting agents have different ones.  `FollowInv` adds that the
path in the slot is the agent's own or not yet there: a visit completes the search it
began itself, whatever was in the query before, and a slot whose search is refused is
given an error and no path.  Requests become out of date between two calls only
(`RefuseEffect`), when nobody waits.  A quick search or `OptimizePathTopology` may be refused
without notice; then the agent is `lost`, and what it follows need not be its own (`HasPath`).

**Search.**  The heap comes first.  `Above` is a least closed set and a recursive
function has to be shown to exist, which is what `Induction` is for (see below).
`BubbleUpHeap` and `BubbleUpEntries` say that an entry that rises from a position, in a
heap that is one but for that position, leaves a heap of the same entries and the new one;
`TrickleDownLemma` that the way down (`HoleLemma`: it ends at a leaf) prepares that.
`PushLemma`, `ModifyLemma` and `PopLemma` are what the search needs of it.

The search's invariant `SearchInv` has a part for each property and two that only serve
the others: `PoolInv` (the first node is the start), `OpenInv` (the heap holds the open
nodes), `TreeInv` (a node was reached from its parent along a link and costs at least as
much as its parent and the way), `Rooted`, `NearInv`, `Expanded` (from a closed node all
links were followed, as long as nodes lasted) and `EndInv` (only a found end is closed).
`Rooted` is the one that took most thought.  Costs do not decrease from parent to child,
but edges of no length let them be equal, so costs alone do not forbid a cycle.  `Rooted`
therefore says that every set of nodes closed under parents contains the start.  When a
node takes a new parent, it does so at a strictly smaller total, hence cost, than it had;
the nodes above the new parent cost no more than that one, so the node is not among
them, and what is above them was rooted before.
`PathLemma` then turns `Rooted` into a path by a pigeonhole argument: as many steps up as
there are nodes reach the start.  `EndIsFound` uses that `Reachable` is a least closed
set, so that the nodes' polygons, being closed under passable links when the open list is
empty, contain it (`NodesReachable` is the converse).  `SearchAssumption` types the links of
the meshes to be searched.

**Columns** need the invariant `Pile`: spans are proper and lie within the field, are
apart, and solid exactly where the pieces rasterized are.  The heart is `AddSpanApart`
and `AddSpanSolid`: what touches the new span is contiguous with it, and what does not
touch it cannot touch the merged span either, because columns were apart before
(`MergedReach`).  The filters change areas only.  `FieldSpec` is the heightfield with
any calls on it, of which `Build` makes some.

**Connections**: `Compatible` is symmetric, and of the spans beside a given one at most one
is compatible (`OneCompatible`), because two of them would leave no room for each
other's headroom within a climb; hence the first candidate found from either side is
the other's.  With a climb as great as the height the theorem is false: the code does
not check its parameters.

`ConnectionsMutual` supposes that spans of a cell are stacked, which
`BuiltConnectionsLeadBack` has to show of what a build makes of its columns
(`SpansStacked`).  The clearance of a span ends at the lowest span above it
(`ClearanceFits`), so it remains that the numbering goes upwards in a column: `Numbered`
gives each place the number of places before it, and since columns are apart (`Pile`) no
two places of a finite field (`PlacesFinite`) have the same number and all numbers are
taken (`NumberedInOrder`).  `FieldBuildSpec` describes the build up to its areas, and lets
any later step pass that leaves columns, spans and connections alone; TLC finds that all
behaviours of `rc_build` satisfy it.  `FieldAssumption` types the limits and the
switches of the filters.

**Corridors**: `CorridorInv` is the conjunction of types and the three properties; it is inductive as
it stands, because the history variables carry all that a later step needs.  Each of the
merges makes a splice (`IsSplice`): the head of one path up to a polygon, the rest of
another from that same polygon on, with different polygons on its two sides.
`SpliceIsPath` shows that this is a path again; `Seam` supplies the difference:
the common polygon is the furthest, so the next one of the corridor does not lie on
the walk.  `BackwardsIsPath` uses that links are symmetric
(`CorridorAssumption`).  Nothing is assumed of where a corridor that is set begins: a quick
search from `path[1]` keeps `path[1] = pos` (`QuickPathKeepsInv`), and where a refused one
brings another path that begins elsewhere, `astray` says so until the agent is moved along
the corridor again.  All of it holds of `AgentSpec`, in which late answers are appended
at any time: `UntrackedIsPath` follows the stack that takes the trackbacks out, polygon by
polygon.  `Kept` says what is on it after `k` of them: it begins and ends as they do, is
linked if they are, and comes back to no polygon after one step.

**Recursion.**  The library's induction theorems take an operator as a parameter, which
the provers cannot instantiate.  `Induction` states what is needed with sets in place of
operators: a set of numbers has a smallest one (`Smallest`), a set that contains 0 and
with every number below `n` the next contains all up to `n` (`UpTo`), and there is a
function each of whose values is a given step from the one before (`Recursion`).
Loops written as recursive functions on numbers are within reach by this: the
stack of the corridor, `FindPath`, the passes of `Expand`, the edges of a mesh.  Loops
written as folds or with RECURSIVE are not.

**Slices.**  `SlicesFindTheSame` needs that the whole search after `rounds` passes has the
search that the slices have (`SliceInv`), that the goal has not been taken while they are
busy, and that the loop has ended when they succeed.  `PassType` and `FindPathSteps` supply
that `FindPath(pr, n + 1)` is one `Pass` more than `FindPath(pr, n)`; beginning anew sets
`rounds` to 0, so that a search given up half-way leaves nothing behind.

**Division into regions.**  Of the two ways to divide the ground, the sweeps take row after
row: the rows swept so far and the border have regions (`SweptSoFar`), since a row gives each
of its spans a sweep (`SweepRowLemma`, `SweptLemma`) and renumbering takes no region
away (`RenumberedLemma`).  The watershed ends with `ExpandAll`, which passes over what is
left until a pass takes nothing.  `ExpandLemma` shows that it settles: each pass but the last
takes at least one bare span, and there are no more passes than spans.  What is
left bare then has no neighbour to join, by the definition of `Taken`.
`RegionBuildSpec` lets any step pass that leaves these stages, so that the theorem covers
whatever program goes on with the regions; TLC finds that all behaviours of `rc_build`
satisfy it.

**Neighbours.**  The edges between two vertices are matched from either side
(`EdgePairs`): while they claim each other, what has met is neither open nor left and
meets one edge only (`Claims`, `ClaimedLemma`).  So an edge has at most one opposite, which
runs back and has it opposite in turn (`OppositeLemma`), and it does not matter how many
polygons share an edge.  Portals and the portals kept by a merge only fill in where there
is no neighbour, with numbers that no polygon has as long as there are at most 32 768
(`Polygonal`, `CompletedLemma`): beyond, the code would take a neighbour's number for a
portal.  `NeighboursMutual` states `Mutually` of the meshes a build makes, in a
module that proofs cannot use, hence the theorem is about the operators.  It does not extend
to `LayerAdjacency`, the copy in the tile cache, which also matches edges that run the
same way.

**Only model-checked.**  Liveness under fairness (`SlotsComeBack`, that requests are taken
and removals completed) needs ENABLED and stays with TLC for good.  So do properties about
RECURSIVE definitions and folds: `LargeRegionsStay`, `LayersExact`, `ContoursMeet`,
`ContoursEnclose`, `PolygonsConvex`, `PolygonsCover`, and `NeighboursMutual` as a property
of whole builds.  `RegionsConnected` asks which spans can be reached, and its last part is true
in these scenes only: on a ramp that winds upwards a region may come to lie above itself,
which is why merging looks for overlaps.  `DistancesExact` would need an argument about the
order of both scans over the plane, which was not attempted.

## 7. Where code and documentation disagree

* `cr_slow`: `GetRequestErr` returns `ErrInProgress` while a search goes on, and
  `updateMoveRequest` takes every error for a failure and starts over.  A search
  that does not end within one `Update`, and any whose open list runs empty, is
  repeated for ever.
* `pq_owner`: `PathQueue.Update` goes on to other slots although a search is in
  progress; the next one starts its search in the same query, and the first
  request is answered with the path of the second.
* `tc_overflow`: touched tiles beyond `maxUpdate` are dropped and never rebuilt,
  while `Update` reports that it is up to date.
* `pc_stale`: `NavMeshQuery.IsValidPolyRef` ignores the salt of a reference, so a
  corridor over a tile that was rebuilt is taken to be valid although its references
  are outdated (and an empty slot makes it panic).  The trace is one step: `RebuildTile`.
* `rc_border`: the loops over a polygon's edges in `canRemoveVertex` and `removeVertex`
  increment `j` before they use it.  They pair the wrong corners, and where a vertex on the
  border of a tile is to be removed, the hole is closed over a null index.  The copy
  in the tile cache has the loop right.

More were met while modelling and are described here without a run of their own:

* The tile cache's `removeVertex` says "Remove the polygon." and copies, over the
  polygon removed, the last polygon and all unused slots behind it, without a bound
  (tile_cache_builder.go:1875; mesh.go:619 has one).  With the action property
  `OtherPolygonsStay` in `rc_build.cfg` TLC shows it: a tile with a border has
  6 polygons in 10 slots; the first one is removed, the last takes its place, and the four
  between them are emptied by the unused slots.
  (A contour of that tile was cut short by the bound on the steps of
  `walkContour`; with closed contours no vertex was removed in the scenes tried.)
* The quick search of `updateMoveRequest` drops the error of `FindPathSliced`
  (crowd.go:786).  A search refused because the mesh changed leaves the search of the agent
  before in the query, and that agent's path becomes the corridor.  With the invariant
  `QuickSearchOwn` in `cr_moves.cfg` TLC shows it in eleven steps.
* An obstacle that touches no tile stays `Removing`: states change only next to a
  rebuild (tile_cache.go:529).
* `AddTile` with an old `lastRef` winds the slot's salt back, and references removed since
  then become valid again.  With `AnyLastRef = TRUE` in `nm_tiles.cfg` TLC shows it
  (`StaleRefsRefused`); with FALSE only the slot's newest reference is restored.
* `OptimizePathTopology` drops the error of a refused search, too, and takes what the query
  still holds, so that a path of another agent is pasted in and the corridor no longer
  starts at its agent (path_corridor.go:116).  `StartsAtAgent` excepts both refused searches.

And what the builds may run into, modelled as the end of a build: a row with more
runs than there are sweeps (region.go:1238, layers.go:70), lists of neighbours or overlaps
that are full (tile_cache_builder.go:967), regions beyond a byte.  `boxBlur` is computed but its
result not stored (region.go:1158); `MarkBoxArea` truncates towards zero, so a box that
ends just before the grid still marks its first row (area.go:268).  In the corridor, a
ray across more than 32 polygons panics at the copy (path_corridor.go:100), as does
a walk that reports no polygon (path_corridor.go:233).

`cr_slow` hides `pq_owner`: the crowd never waits across two Updates, so it never
meets the wrong answer.

## 8. Not modelled

Floating-point geometry (clipping of triangles, slopes, positions, velocities, detail
meshes, offsetting of polygons, the metrics), the byte formats of tiles and layers,
compression, debug output, and timers.  Of the modelled components: polygon flags
and areas of the mesh, `StoreTileState`, off-mesh connections (`AddTile` panics on
data that has them, so `MoveOverOffmeshConnection` is never of use), steering and
avoidance, off-mesh animation of agents; of the queries, ray casts, straight paths
and the searches around a point, except for what the corridor sees of them.  More than
`maxNeis` (32) layers in a cell are outside the bounds of `NavMesh`.  So are, of the
builds, contours of more than 40 000 steps (contour.go:668) and meshes of 0xfffe vertices or more
(mesh.go:858).  `CreateNavMeshData`
lays out a tile in one pass and keeps no state; local boundary, proximity grid and
avoidance are filled anew in every `Update`.

## 9. Plan

Done: (1) `TileCache`, (2) `TileData`, `TileDirectory`, `NavMesh`, (3) `PathQueue` with
the sliced search, (4) `Crowd`, (5) `OpenList`, `PathSearch` and `WholeSearch`, (6)
`Corridor` and `AgentCorridor`, (7) the pipeline from `Heightfield` to `LayerMesh`; proofs
of (1) to (6) but for what section 6 leaves to TLC, and of columns, connections, the
division into regions and neighbours in (7).

What would come next:

1. `DistancesExact`, from the order of the two scans; and that `Flooded` and the sweeps keep
   a region in one piece, the part of `RegionsConnected` that is true in general.
2. `Triangulate` and `MergedPolys` as recursive functions, and that they keep the area they
   cover.
3. The link and portal counts of `CreateNavMeshData`, which bound the pools of
   `NavMesh`; polygon state of tiles; bounded insertions of `LocalBoundary` and the
   proximity grid.
