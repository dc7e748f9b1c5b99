----------------------------- MODULE MeshBuild -----------------------------
(***************************************************************************)
(* The build of a polygon mesh: the steps of Build, then contours, the      *)
(* polygons of one contour at a time, the removal of border vertices one at *)
(* a time, adjacency, and the merge of the tile with another of its kind.   *)
(***************************************************************************)
EXTENDS Build, Contours, PolyMesh

VARIABLES contours,    \* cset
          mesh,        \* [verts, polys, spare, removable, maxVerts, maxPolys, nvp, broken]
          cursor,      \* the contour or vertex the loop is at
          nei,         \* the second half of every polygon
          whole        \* the mesh merged from this tile and its copy
meshVars == <<contours, mesh, cursor, nei, whole>>
allVars == <<vars, meshVars>>

Contoured ==
    /\ At("regions") /\ Goto("contours")
    /\ contours' = BuildContours(spans, con, areas, reg, plan)
    /\ UNCHANGED <<fieldVars, plan, chfVars, areas, dist, regionVars, mesh, cursor, nei, whole>>

\* BuildPolyMesh
Usable == SelectSeq(contours, LAMBDA c : Len(c.verts) >= 3)
NewMesh(nvp) ==
    [verts |-> <<>>, polys |-> <<>>, spare |-> <<>>, removable |-> {}, nvp |-> nvp, broken |-> FALSE,
     maxVerts |-> FoldLeft(LAMBDA n, c : n + Len(c.verts), 0, Usable),
     maxPolys |-> FoldLeft(LAMBDA n, c : n + Len(c.verts) - 2, 0, Usable)]
StartMesh ==
    /\ At("contours") /\ Goto("polygons")
    /\ mesh' = NewMesh(plan.nvp)
    /\ cursor' = 1
    /\ UNCHANGED <<fieldVars, plan, chfVars, areas, dist, regionVars, contours, nei, whole>>

AddPolygons ==
    /\ At("polygons") /\ cursor <= Len(contours)
    /\ mesh' = AddContour(mesh, contours[cursor], plan.nvp)
    /\ cursor' = cursor + 1
    /\ UNCHANGED <<vars, contours, nei, whole>>
PolygonsDone ==
    /\ At("polygons") /\ cursor > Len(contours) /\ Goto("removing")
    /\ cursor' = 0
    /\ UNCHANGED <<fieldVars, plan, chfVars, areas, dist, regionVars, contours, mesh, nei, whole>>

\* A flagged vertex goes if it can; the flags above it move down with the numbers.
Waiting == {v \in mesh.removable : v >= cursor}
WithoutFlag(v) == [mesh EXCEPT !.removable = {Down(u, v) : u \in @ \ {v}}]
RemoveEdgeVertex ==
    LET v == Min(Waiting) IN
    /\ At("removing") /\ Waiting # {}
    /\ CASE EdgesOverrun(mesh, v) -> mesh' = [mesh EXCEPT !.broken = TRUE] /\ cursor' = v
         [] ~EdgesOverrun(mesh, v) /\ CanRemoveVertex(mesh, v) ->
                mesh' = RemoveVertex(WithoutFlag(v), v) /\ cursor' = v
         [] OTHER -> mesh' = mesh /\ cursor' = v + 1
    /\ IF mesh'.broken THEN Goto("broken") ELSE UNCHANGED stage
    /\ UNCHANGED <<fieldVars, plan, chfVars, areas, dist, regionVars, contours, nei, whole>>

BuildAdjacency ==
    LET found == Adjacency(mesh.polys) IN
    /\ At("removing") /\ Waiting = {} /\ Goto("mesh")
    /\ nei' = IF plan.border > 0
              THEN Portals(mesh, found, Width - 2 * plan.border, Height - 2 * plan.border)
              ELSE found
    /\ UNCHANGED <<fieldVars, plan, chfVars, areas, dist, regionVars, contours, mesh, cursor, whole>>

\* MergePolyMeshes of the tile and a second one with the same ground beside it.
MergeTiles ==
    LET w == Width - 2 * plan.border
        tile == [mesh |-> mesh, nei |-> nei, x |-> 0, z |-> 0, w |-> w, h |-> Height - 2 * plan.border] IN
    /\ At("mesh") /\ Goto("merged")
    /\ whole' = MergePolyMeshes(<<tile, [tile EXCEPT !.x = w]>>)
    /\ UNCHANGED <<fieldVars, plan, chfVars, areas, dist, regionVars, contours, mesh, cursor, nei>>

MeshInit == Init /\ contours = <<>> /\ mesh = [broken |-> FALSE] /\ cursor = 0 /\ nei = <<>> /\ whole = <<>>
MeshNext ==
    \/ Contoured \/ StartMesh \/ AddPolygons \/ PolygonsDone
    \/ RemoveEdgeVertex \/ BuildAdjacency \/ MergeTiles
=============================================================================
