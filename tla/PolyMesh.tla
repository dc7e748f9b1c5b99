------------------------------ MODULE PolyMesh ------------------------------
(***************************************************************************)
(* Polygons from contours: ear clipping, merging of triangles into convex   *)
(* polygons, removal of vertices, adjacency.  A polygon is a sequence of    *)
(* vertex numbers, counted from 0 as in the code, with its region and area; *)
(* a mesh is [verts, polys] and, once it is built, the edges' neighbours.   *)
(***************************************************************************)
EXTENDS MeshEdges, Plane, FiniteSetsExt, SequencesExt

MultipleRegs == 0

---------------------------------------------------------------------------
\* triangulate.  The ring is a sequence of [p, v, ear]: a point, its number
\* and the flag that it can be cut off.
Points(ring) == [k \in DOMAIN ring |-> ring[k].p]
Diagonal(v, i, j) == InCone(v, i, v[j]) /\ ~Crosses(v[i], v[j], v, {i, j}, Intersect)
DiagonalLoose(v, i, j) ==
    InConeLoose(v, i, v[j]) /\ ~Crosses(v[i], v[j], v, {i, j}, IntersectProp)

\* The first of the cheapest places.
Cheapest(places, Cost(_)) ==
    Min({i \in places : \A j \in places : Cost(i) <= Cost(j)})

\* The corner before the one to cut off, 0 if there is none.  Overlapping
\* contours need the loose test, whose cost reaches one corner further.
StrictEar(ring) ==
    LET n == Len(ring)
        v == Points(ring)
        Cost(i) == SquaredDistance(v[i], v[NextOf(NextOf(i, n), n)])
        ears == {i \in 1..n : ring[NextOf(i, n)].ear} IN
    IF ears = {} THEN 0 ELSE Cheapest(ears, Cost)
LooseEar(ring) ==
    LET n == Len(ring)
        v == Points(ring)
        Second(i) == NextOf(NextOf(i, n), n)
        Cost(i) == SquaredDistance(v[i], v[NextOf(Second(i), n)])
        loose == {i \in 1..n : DiagonalLoose(v, i, Second(i))} IN
    IF loose = {} THEN 0 ELSE Cheapest(loose, Cost)
Ear(ring) == LET i == StrictEar(ring) IN IF i # 0 THEN i ELSE LooseEar(ring)

Clipped(ring, i) ==
    LET n == Len(ring) - 1
        cut == NextOf(i, n + 1)
        rest == RemoveAt(ring, cut)
        v == Points(rest)
        at == IF cut > n THEN 1 ELSE cut
        left == PrevOf(at, n) IN
    [rest EXCEPT ![left].ear = Diagonal(v, PrevOf(left, n), at),
                 ![at].ear = Diagonal(v, left, NextOf(at, n))]

\* Triangles of numbers; fewer than expected when the ring cannot be cut.
RECURSIVE EarClipped(_, _, _)
EarClipped(Find(_), ring, tris) ==
    LET n == Len(ring)
        i == IF n > 3 THEN Find(ring) ELSE 1 IN
    IF i = 0 THEN tris
    ELSE LET tri == <<ring[i].v, ring[NextOf(i, n)].v, ring[NextOf(NextOf(i, n), n)].v>> IN
         IF n <= 3 THEN Append(tris, tri) ELSE EarClipped(Find, Clipped(ring, i), Append(tris, tri))

Flagged(verts) ==
    LET n == Len(verts) IN
    [k \in 1..n |-> [p |-> verts[k], v |-> k, ear |-> Diagonal(verts, PrevOf(k, n), NextOf(k, n))]]
Triangulate(verts) == EarClipped(Ear, Flagged(verts), <<>>)

---------------------------------------------------------------------------
\* addVertex: the newest vertex of the same cell and about the same height.
AddVertex(s, p) ==
    LET same == {k \in DOMAIN s.verts :
                    SameSpot(s.verts[k], p) /\ s.verts[k].y - p.y \in -2..2} IN
    IF same = {} THEN [verts |-> Append(s.verts, [x |-> p.x, y |-> p.y, z |-> p.z]),
                       indices |-> Append(s.indices, Len(s.verts))]
    ELSE [s EXCEPT !.indices = Append(@, Max(same) - 1)]

\* The numbers of a whole contour's vertices.
AddVertices(verts, points) ==
    FoldLeft(AddVertex, [verts |-> verts, indices |-> <<>>], points)

---------------------------------------------------------------------------
\* getPolyMergeValue: the squared length of the edge two polygons share, -1
\* if they share none or would be too large or not convex together.
EdgeOf(p, i) == {p[i], Place(p, i + 1)}
Shared(pa, pb) == {<<i, j>> \in (DOMAIN pa) \X (DOMAIN pb) : EdgeOf(pa, i) = EdgeOf(pb, j)}
\* The last edge of pa that is shared, with the first of pb it is shared with.
SharedEdge(pa, pb) ==
    CHOOSE e \in Shared(pa, pb) :
        \A f \in Shared(pa, pb) : f[1] < e[1] \/ (f[1] = e[1] /\ e[2] <= f[2])

Left(verts, a, b, c) == LeftOf(verts[a + 1], verts[b + 1], verts[c + 1])
MergeValueMut(pa, pb, verts, nvp) ==
    LET e == SharedEdge(pa, pb)
        i == e[1]
        j == e[2] IN
    IF \/ Len(pa) + Len(pb) - 2 > nvp
       \/ Shared(pa, pb) = {}
       \/ ~Left(verts, Place(pa, i + Len(pa) - 1), pa[i], Place(pb, j + 2))
    THEN -1
    ELSE SquaredDistance(verts[pa[i] + 1], verts[Place(pa, i + 1) + 1])
MergeValue(pa, pb, verts, nvp) ==
    LET e == SharedEdge(pa, pb)
        i == e[1]
        j == e[2] IN
    IF \/ Len(pa) + Len(pb) - 2 > nvp
       \/ Shared(pa, pb) = {}
       \/ ~Left(verts, Place(pa, i + Len(pa) - 1), pa[i], Place(pb, j + 2))
       \/ ~Left(verts, Place(pb, j + Len(pb) - 1), pb[j], Place(pa, i + 2))
    THEN -1
    ELSE SquaredDistance(verts[pa[i] + 1], verts[Place(pa, i + 1) + 1])

\* mergePolyVerts
MergedVertsMut(pa, pb) ==
    LET e == SharedEdge(pa, pb) IN
    [k \in 1..Len(pa) - 1 |-> Place(pa, e[1] + k)] \o [k \in 1..Len(pb) - 2 |-> Place(pb, e[2] + k)]
MergedVerts(pa, pb) ==
    LET e == SharedEdge(pa, pb) IN
    [k \in 1..Len(pa) - 1 |-> Place(pa, e[1] + k)] \o [k \in 1..Len(pb) - 1 |-> Place(pb, e[2] + k)]

\* Polygons merge, the best pair first, until none can; the last one fills the gap.
Both(a, b) == [verts |-> MergedVerts(a.verts, b.verts), area |-> a.area,
               reg |-> IF a.reg = b.reg THEN a.reg ELSE MultipleRegs]
RECURSIVE MergedPolys(_, _, _)
MergedPolys(polys, verts, nvp) ==
    LET pairs == {p \in (DOMAIN polys) \X (DOMAIN polys) : p[1] < p[2]}
        Value(p) == MergeValue(polys[p[1]].verts, polys[p[2]].verts, verts, nvp)
        worth == {p \in pairs : Value(p) > 0}
        best == CHOOSE p \in worth : \A q \in worth :
                    \/ Value(q) < Value(p)
                    \/ Value(q) = Value(p) /\ (p[1] < q[1] \/ (p[1] = q[1] /\ p[2] <= q[2]))
        merged == [polys EXCEPT ![best[1]] = Both(polys[best[1]], polys[best[2]]),
                                ![best[2]] = polys[Len(polys)]] IN
    IF nvp <= 3 \/ worth = {} THEN polys
    ELSE MergedPolys(Front(merged), verts, nvp)

Distinct(tri) == Cardinality(Range(tri)) = 3

\* The polygons of one contour, added to the mesh.
AddTriangles(mesh, contour, triangles, nvp) ==
    LET new == AddVertices(mesh.verts, contour.verts)
        tris == SelectSeq(triangles, Distinct)
        polys == Listed([k \in DOMAIN tris |->
                    [verts |-> [m \in 1..3 |-> new.indices[tris[k][m]]],
                     reg |-> contour.reg, area |-> contour.area]])
        removable == {new.indices[k] : k \in {m \in DOMAIN contour.verts : contour.verts[m].border}} IN
    [mesh EXCEPT !.verts = new.verts, !.removable = @ \cup removable,
                 !.polys = @ \o MergedPolys(polys, new.verts, nvp)]
AddContour(mesh, contour, nvp) ==
    IF Len(contour.verts) < 3 THEN mesh
    ELSE AddTriangles(mesh, contour, Triangulate(contour.verts), nvp)

---------------------------------------------------------------------------
\* The loops of canRemoveVertex and removeVertex over a polygon's edges step
\* on before they read: they pair the second vertex with the last, and the
\* null that follows the last vertex with it.
Slot(p, i) == IF i <= Len(p) THEN p[i] ELSE NullIdx
Pairs(p) ==
    [k \in 1..Len(p) |-> [from |-> p[IF k = 1 THEN Len(p) ELSE k], to |-> Slot(p, k + 1)]]

Uses(poly, v) == v \in Range(poly.verts)
Touching(polys, v) == SelectSeq(polys, LAMBDA poly : Uses(poly, v))
PairsOf(polys, Paired(_), Want(_)) ==
    LET Of(poly) == [k \in 1..Len(poly.verts) |->
                        [from |-> Paired(poly.verts)[k].from, to |-> Paired(poly.verts)[k].to,
                         reg |-> poly.reg, area |-> poly.area]] IN
    FoldLeft(LAMBDA all, poly : all \o SelectSeq(Of(poly), Want), <<>>, polys)

\* canRemoveVertex: enough edges remain, and at most two of those that touch
\* the vertex are used by one polygon only.
CornersAt(polys, v) ==
    FoldLeft(LAMBDA n, poly : n + Cardinality({k \in DOMAIN poly.verts : poly.verts[k] = v}), 0, polys)
EnoughLeft(mesh, v) ==
    LET touching == Touching(mesh.polys, v) IN
    FoldLeft(LAMBDA n, poly : n + Len(poly.verts) - 1, 0, touching) - CornersAt(touching, v) > 2
FarEnds(mesh, v, Paired(_)) ==
    LET spokes == PairsOf(Touching(mesh.polys, v), Paired, LAMBDA e : v \in {e.from, e.to}) IN
    [k \in DOMAIN spokes |-> IF spokes[k].from = v THEN spokes[k].to ELSE spokes[k].from]
MayRemove(mesh, v, Paired(_)) ==
    LET ends == FarEnds(mesh, v, Paired)
        open == {x \in Range(ends) : Cardinality({k \in DOMAIN ends : ends[k] = x}) < 2} IN
    EnoughLeft(mesh, v) /\ Cardinality(open) <= 2
\* The array for these edges has two places for each corner at the vertex;
\* wrongly paired, they can be more: a panic.
EdgesOverrun(mesh, v) ==
    EnoughLeft(mesh, v) /\ Cardinality(Range(FarEnds(mesh, v, Pairs))) > 2 * CornersAt(mesh.polys, v)
CanRemoveVertex(mesh, v) == MayRemove(mesh, v, Pairs)

\* removeVertex, first part: the polygons that use the vertex are removed, the
\* last one taking the place of each, and the numbers above it step down.
Down(v, rem) == IF v > rem THEN v - 1 ELSE v
RECURSIVE Split(_, _, _, _)
Split(polys, rem, i, removed) ==
    IF i > Len(polys) THEN [kept |-> polys, removed |-> removed]
    ELSE IF Uses(polys[i], rem)
         THEN Split(Front([polys EXCEPT ![i] = polys[Len(polys)]]), rem, i, Append(removed, polys[i]))
         ELSE Split(polys, rem, i + 1, removed)

\* Second part: the boundary of the hole, put together from the edges; each
\* corner keeps the region and area of the edge that brought it.
RECURSIVE HoleFrom(_, _, _, _)
HoleFrom(hole, edges, i, matched) ==
    LET e == edges[i]
        corner(v) == [v |-> v, reg |-> e.reg, area |-> e.area]
        rest == Front([edges EXCEPT ![i] = edges[Len(edges)]]) IN
    IF i > Len(edges)
    THEN IF matched /\ edges # <<>> THEN HoleFrom(hole, edges, 1, FALSE) ELSE hole
    ELSE IF hole[1].v = e.to THEN HoleFrom(<<corner(e.from)>> \o hole, rest, i, TRUE)
    ELSE IF hole[Len(hole)].v = e.from THEN HoleFrom(Append(hole, corner(e.to)), rest, i, TRUE)
    ELSE HoleFrom(hole, edges, i + 1, matched)

Boundary(edges) ==
    HoleFrom(<<[v |-> edges[1].from, reg |-> edges[1].reg, area |-> edges[1].area]>>, edges, 1, FALSE)

\* Third part: triangles of the hole, merged like those of a contour.
HolePolys(hole, verts, nvp) ==
    LET tris == Triangulate([k \in DOMAIN hole |-> verts[hole[k].v + 1]])
        OneOf(tri) == LET regs == {hole[k].reg : k \in Range(tri)} IN
                      IF Cardinality(regs) = 1 THEN hole[tri[1]].reg ELSE MultipleRegs IN
    MergedPolys(Listed([k \in DOMAIN tris |->
                    [verts |-> [m \in 1..3 |-> hole[tris[k][m]].v],
                     reg |-> OneOf(tris[k]), area |-> hole[tris[k][1]].area]]), verts, nvp)

\* The mesh without the vertex and its polygons, and the edges around the hole.
OpenedFrom(kept, removed, rem, Paired(_)) ==
    LET edges == PairsOf(removed, Paired, LAMBDA e : rem \notin {e.from, e.to}) IN
    [mesh |-> [kept EXCEPT !.verts = RemoveAt(@, rem + 1),
                           !.polys = [k \in DOMAIN @ |->
                                [@[k] EXCEPT !.verts = [m \in DOMAIN @ |-> Down(@[m], rem)]]]],
     edges |-> Listed([k \in DOMAIN edges |->
                    [edges[k] EXCEPT !.from = Down(@, rem), !.to = Down(@, rem)]])]
Opened(mesh, rem) ==
    LET split == Split(mesh.polys, rem, 1, <<>>) IN
    OpenedFrom([mesh EXCEPT !.polys = split.kept], split.removed, rem, Pairs)
Filled(mesh, polys) ==
    [mesh EXCEPT !.polys = SubSeq(@ \o polys, 1, Min({Len(@) + Len(polys), mesh.maxPolys}))]

\* A hole with a number that is no vertex's, or with less than three corners,
\* ends in a panic: the mesh is then said to be broken.
RemoveVertex(mesh, rem) ==
    LET opened == Opened(mesh, rem)
        hole == Boundary(opened.edges) IN
    IF opened.edges = <<>> THEN opened.mesh
    ELSE IF Len(hole) < 3 \/ \E k \in DOMAIN hole : hole[k].v >= mesh.maxVerts
    THEN [mesh EXCEPT !.broken = TRUE]
    ELSE Filled(opened.mesh, HolePolys(hole, opened.mesh.verts, mesh.nvp))

---------------------------------------------------------------------------
\* MergePolyMeshes: the tiles' polygons over common vertices.  A portal stays
\* one only on the outside.  A tile is [mesh, nei, x, z, w, h].
Outside(tiles, t, side) ==
    CASE side = 0 -> \A u \in Range(tiles) : t.x <= u.x
      [] side = 1 -> \A u \in Range(tiles) : t.z + t.h >= u.z + u.h
      [] side = 2 -> \A u \in Range(tiles) : t.x + t.w >= u.x + u.w
      [] OTHER    -> \A u \in Range(tiles) : t.z <= u.z
MergePolyMeshes(tiles) ==
    LET Add(all, t) ==
            LET corner == [x |-> Min({u.x : u \in Range(tiles)}), z |-> Min({u.z : u \in Range(tiles)})]
                new == AddVertices(all.verts,
                           [k \in DOMAIN t.mesh.verts |->
                               [t.mesh.verts[k] EXCEPT !.x = @ + t.x - corner.x,
                                                       !.z = @ + t.z - corner.z]]) IN
            [verts |-> new.verts,
             polys |-> all.polys \o [p \in DOMAIN t.mesh.polys |->
                 [t.mesh.polys[p] EXCEPT !.verts = [k \in DOMAIN @ |-> new.indices[@[k] + 1]]]],
             outer |-> all.outer \o [p \in DOMAIN t.nei |-> [k \in DOMAIN t.nei[p] |->
                 IF \E side \in 0..3 : t.nei[p][k] = Portal(side) /\ Outside(tiles, t, side)
                 THEN t.nei[p][k] ELSE NullIdx]]]
        all == FoldLeft(Add, [verts |-> <<>>, polys |-> <<>>, outer |-> <<>>], tiles) IN
    [verts |-> all.verts, polys |-> all.polys,
     nei |-> StillOpen(Adjacency(all.polys), all.outer)]
=============================================================================
