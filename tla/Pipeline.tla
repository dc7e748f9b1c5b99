------------------------------ MODULE Pipeline ------------------------------
(***************************************************************************)
(* Both ways from triangles to a polygon mesh: through regions of the whole  *)
(* field (Build and MeshBuild) and through layers (LayerBuild); and what     *)
(* must be true along them.                                                  *)
(***************************************************************************)
EXTENDS LayerBuild

AllInit == MeshInit /\ layers = <<>> /\ tile = <<>> /\ tileRegs = <<>>
AllNext ==
    \/ Next /\ UNCHANGED <<meshVars, layerVars>>
    \/ MeshNext /\ UNCHANGED layerVars
    \/ SweepLayers \/ FormLayers \/ LayerNext
AllSpec == AllInit /\ [][AllNext]_<<allVars, layerVars>>

---------------------------------------------------------------------------
\* The layers of BuildHeightfieldLayers hold all walkable ground within the
\* border, each span in one cell of one layer and no two in the same; where a
\* cell says that the layer goes on, the next cell says so too; and the other
\* connections of the span are portals.
Held(l, i) ==
    LET cell == layers[l].cells[<<spans[i].x - plan.border, spans[i].z - plan.border>>]
        ways == {d \in Dirs : con[i][d] # None /\ areas[con[i][d]] # NullArea} IN
    /\ cell.area = areas[i] /\ cell.cons \cup cell.portals = ways
    /\ IF cell.portals = {} THEN cell.height = spans[i].y - layers[l].hmin
                            ELSE cell.height >= spans[i].y - layers[l].hmin
Ground == {i \in DOMAIN spans : areas[i] # NullArea /\ Inner(spans[i], plan.border)}
Occupied(l) == {c \in Grid(layers[l]) : layers[l].cells[c].area # NullArea}
LayersExact ==
    stage = "layers" =>
        /\ \A i \in Ground : \E l \in DOMAIN layers : Held(l, i)
        /\ FoldLeft(LAMBDA n, l : n + Cardinality(Occupied(l)), 0, Scan(layers)) = Cardinality(Ground)
        /\ \A l \in DOMAIN layers : \A c \in Occupied(l) : \A d \in layers[l].cells[c].cons :
            /\ Toward(c, d) \in Occupied(l)
            /\ Opposite(d) \in layers[l].cells[Toward(c, d)].cons

---------------------------------------------------------------------------
ContourEdges(c) ==
    {[from |-> c.verts[k], to |-> c.verts[NextOf(k, Len(c.verts))]] : k \in DOMAIN c.verts}
Meets(e, f) == SameSpot(e.from, f.to) /\ SameSpot(e.to, f.from)
Faithful == plan.error.num = 0

\* Where a contour says that another region begins, that region's contour runs
\* along the same edge the other way, however much both were simplified
\* (BuildContours).  Cuts to holes run there and back.
ContoursMeet ==
    stage = "contours" =>
        \A c \in Range(contours) : \A e \in ContourEdges(c) :
            \/ e.from.r \notin {d.reg : d \in Range(contours)} \ {c.reg}
            \/ \E f \in ContourEdges(c) : Meets(e, f)
            \/ \E d \in Range(contours) : /\ d.reg = e.from.r
                                         /\ \E f \in ContourEdges(d) : f.from.r = c.reg /\ Meets(e, f)

\* With no error allowed, the contours of BuildContours enclose exactly the
\* cells of their regions, holes cut open included.
AreaOf(cs) == FoldLeft(LAMBDA n, c : n + RingArea2(c.verts), 0, cs)
Enclosed(numbers) == 2 * Cardinality({i \in DOMAIN numbers : numbers[i] \in {c.reg : c \in Range(contours)}})
ContoursEnclose ==
    Faithful =>
        /\ stage = "contours" => AreaOf(contours) = Enclosed(reg)
        /\ stage = "traced" /\ (\A c \in Range(contours) : c.closed) => AreaOf(contours) = Enclosed(tileRegs)

\* What BuildPolyMesh makes of the contours, before it removes vertices: every
\* polygon is convex, however triangles were merged ...
Corners(m, poly) == [k \in DOMAIN poly.verts |-> m.verts[poly.verts[k] + 1]]
Complete == stage \in {"polygons", "tile polygons"} /\ cursor > Len(contours)
Sound == Faithful /\ (At("tile polygons") => \A c \in Range(contours) : c.closed)
Polygons == IF Complete THEN Range(mesh.polys) ELSE {}
PolygonsConvex ==
    Sound => \A poly \in Polygons :
        LET v == Corners(mesh, poly) IN
        \A k \in DOMAIN v : LeftOn(v[PrevOf(k, Len(v))], v[k], v[NextOf(k, Len(v))])

\* ... and together they cover the ground within the contours, no more and no
\* less.  A hole of one cell is not seen to be one.
Overlooked(c) == RingArea2(c.verts) < 0 /\ ~IsHole(c)
PolygonsCover ==
    /\ Complete /\ Sound
    /\ \A c \in Range(contours) : ~Overlooked(c)
    => FoldLeft(LAMBDA n, poly : n + RingArea2(Corners(mesh, poly)), 0, mesh.polys) = AreaOf(Usable)

\* Beyond an edge lies a polygon that leads back (buildMeshAdjacency), in the
\* mesh of a tile and in a merged one.
NeighboursMutual ==
    /\ stage \in {"mesh", "merged", "tile mesh"} => Mutually(mesh.polys, nei)
    /\ stage = "merged" => Mutually(whole.polys, whole.nei)

\* Removing a vertex from the mesh of a tile takes away the polygons that use it
\* and no other ("Remove the polygon.", removeVertex).  The code does not keep this:
\* its copy runs on over the polygons after the one removed (README, section 7).
OthersKept(v) ==
    \A poly \in Range(mesh.polys) :
        Uses(poly, v) \/ \E q \in Range(mesh'.polys) :
                            q.verts = [m \in DOMAIN poly.verts |-> Down(poly.verts[m], v)]
OtherPolygonsStay ==
    [][At("tile removing") /\ Len(mesh'.verts) < Len(mesh.verts) =>
        OthersKept(Min(Waiting))]_<<allVars, layerVars>>

\* The loops of removeVertex collect the edges that do not touch the vertex:
\* the boundary of the hole is made of vertices of the mesh.
BorderVertexRemoved == stage # "broken"
=============================================================================
