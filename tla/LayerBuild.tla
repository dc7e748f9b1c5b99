----------------------------- MODULE LayerBuild -----------------------------
(***************************************************************************)
(* The other way to a polygon mesh, through the tile cache: the compact      *)
(* field is cut into layers, and the mesh of one layer is built when a tile  *)
(* is added or an obstacle changes.  The variables of MeshBuild are used for *)
(* the contours and the mesh of the layer.                                   *)
(***************************************************************************)
EXTENDS MeshBuild, LayerMesh

VARIABLES layers,       \* lset.Layers
          tile,         \* the layer that is built
          tileRegs      \* layer.Regs
layerVars == <<layers, tile, tileRegs>>
beforeMesh == <<fieldVars, plan, chfVars, areas, dist, regionVars>>

\* BuildHeightfieldLayers; a row with more runs than columns, or too many
\* regions or overlaps, ends it.
SweepLayers ==
    LET swept == SweptLayers(spans, con, areas, plan.border) IN
    /\ At("areas") /\ plan.builder = "tiles"
    /\ Goto(IF swept.fails THEN "panic" ELSE "swept")
    /\ reg' = swept.reg /\ next' = swept.next
    /\ UNCHANGED <<fieldVars, plan, chfVars, areas, dist, away, level, stacks, meshVars, layerVars>>
FormLayers ==
    LET grown == GrownLayers(LayerRegions(spans, con, reg, next - 1))
        joined == JoinedLayers(grown) IN
    /\ At("swept")
    /\ IF Overfull(joined) THEN Goto("overflow") /\ UNCHANGED layers
       ELSE Goto("layers") /\ layers' = LayerGrids(spans, con, areas, reg, joined, plan.border)
    /\ UNCHANGED <<beforeMesh, meshVars, tile, tileRegs>>

\* The calls of BuildNavMeshTile, for any layer.
DecompressLayer ==
    /\ At("layers") /\ Goto("tile")
    /\ \E l \in DOMAIN layers : tile' = layers[l]
    /\ UNCHANGED <<beforeMesh, meshVars, layers, tileRegs>>
MarkObstacles ==
    /\ At("tile") /\ Goto("obstacles")
    /\ tile' = FoldLeft(MarkedLayer, tile, plan.obstacles)
    /\ UNCHANGED <<beforeMesh, meshVars, layers, tileRegs>>
BuildTileCacheRegions ==
    LET regions == TileRegions(tile) IN
    /\ At("obstacles") /\ Goto(IF regions.fails THEN "panic" ELSE "divided tile")
    /\ tileRegs' = regions.reg
    /\ UNCHANGED <<beforeMesh, meshVars, layers, tile>>
BuildTileCacheContours ==
    LET conts == LayerContours(tile, tileRegs, plan.error) IN
    /\ At("divided tile")
    /\ Goto(IF \E c \in Range(conts) : c.fails THEN "panic" ELSE "traced")
    /\ contours' = conts
    /\ UNCHANGED <<beforeMesh, layerVars, mesh, cursor, nei, whole>>

\* BuildTileCachePolyMesh
StartLayerMesh ==
    /\ At("traced") /\ Goto("tile polygons")
    /\ mesh' = NewMesh(MaxVertsPerPoly)
    /\ cursor' = 1
    /\ UNCHANGED <<beforeMesh, layerVars, contours, nei, whole>>
AddLayerPolygons ==
    /\ At("tile polygons") /\ cursor <= Len(contours)
    /\ mesh' = AddLayerContour(mesh, contours[cursor])
    /\ cursor' = cursor + 1
    /\ UNCHANGED <<vars, layerVars, contours, nei, whole>>
\* All slots behind the polygons are still empty.
LayerPolygonsDone ==
    /\ At("tile polygons") /\ cursor > Len(contours) /\ Goto("tile removing")
    /\ cursor' = 0
    /\ mesh' = [mesh EXCEPT !.spare = [k \in 1..mesh.maxPolys - Len(mesh.polys) |-> <<>>]]
    /\ UNCHANGED <<beforeMesh, layerVars, contours, nei, whole>>
RemoveTileVertex ==
    LET v == Min(Waiting) IN
    /\ At("tile removing") /\ Waiting # {}
    /\ IF CanRemoveLayerVertex(mesh, v)
       THEN mesh' = RemoveLayerVertex(WithoutFlag(v), v) /\ cursor' = v
       ELSE mesh' = mesh /\ cursor' = v + 1
    /\ Goto(IF mesh'.broken THEN "overflow" ELSE stage)
    /\ UNCHANGED <<beforeMesh, layerVars, contours, nei, whole>>
BuildLayerAdjacency ==
    /\ At("tile removing") /\ Waiting = {} /\ Goto("tile mesh")
    /\ nei' = LayerAdjacency(mesh, contours)
    /\ UNCHANGED <<beforeMesh, layerVars, contours, mesh, cursor, whole>>

LayerNext ==
    \/ DecompressLayer \/ MarkObstacles \/ BuildTileCacheRegions \/ BuildTileCacheContours
    \/ StartLayerMesh \/ AddLayerPolygons \/ LayerPolygonsDone
    \/ RemoveTileVertex \/ BuildLayerAdjacency
=============================================================================
