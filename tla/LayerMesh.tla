------------------------------ MODULE LayerMesh ------------------------------
(***************************************************************************)
(* The builder of the tile cache: obstacles are marked on one layer, which   *)
(* is swept into regions whose contours become polygons.  The builder has    *)
(* its own copy of the geometry of package recast and differs from it in     *)
(* places; definitions that name one of PolyMesh or Contours say where not.  *)
(* A layer is a record [w, h, cells] of LayerSet; regions count from 1, and  *)
(* regs is a function on its cells, 0 where the code has 0xff.               *)
(***************************************************************************)
EXTENDS LayerSet, Contours, PolyMesh

MaxRegions == 255
MaxNeis == 16        \* dtLayerMaxNeis
MaxRemEdges == 48
MaxVertsPerPoly == 6
Wall == 255
Gate(d) == 248 + d
NoPortal == 15

Grid(layer) == DOMAIN layer.cells
InScan(layer) == [n \in 1..layer.w * layer.h |-> <<(n - 1) % layer.w, (n - 1) \div layer.w>>]
Toward(c, d) == <<c[1] + OffsetX(d), c[2] + OffsetZ(d)>>

---------------------------------------------------------------------------
\* MarkCylinderArea, MarkBoxArea and MarkBoxAreaOriented.  Lengths are in units
\* of 1/Sub of a cell, the rotation is in halves.
Reaches(layer, c, lo, hi) == layer.cells[c].height \in Floor(lo)..Floor(hi)
UnderCylinder(layer, c, m) ==
    LET dx == 2 * Sub * c[1] + Sub - 2 * m.at[1]
        dz == 2 * Sub * c[2] + Sub - 2 * m.at[3]
        reach == 2 * m.radius + Sub IN
    /\ c[1] \in Floor(m.at[1] - m.radius)..Floor(m.at[1] + m.radius)
    /\ c[2] \in Floor(m.at[3] - m.radius)..Floor(m.at[3] + m.radius)
    /\ dx * dx + dz * dz <= reach * reach
    /\ Reaches(layer, c, m.at[2], m.at[2] + m.height)
UnderBox(layer, c, m) ==
    /\ c[1] \in Floor(m.min[1])..Floor(m.max[1])
    /\ c[2] \in Floor(m.min[3])..Floor(m.max[3])
    /\ Reaches(layer, c, m.min[2], m.max[2])
UnderOrientedBox(layer, c, m) ==
    LET Footprint(at) == (100 * at - 141 * Higher(m.half[1], m.half[3])) \div (100 * Sub)
                         ..(100 * at + 141 * Higher(m.half[1], m.half[3])) \div (100 * Sub)
        dx == Sub * c[1] - m.at[1]
        dz == Sub * c[2] - m.at[3]
        Fits(d, half) == 2 * d \in -(2 * half + Sub)..(2 * half + Sub) IN
    /\ c[1] \in Footprint(m.at[1]) /\ c[2] \in Footprint(m.at[3])
    /\ Fits(m.turn[2] * dx + m.turn[1] * dz, m.half[1])
    /\ Fits(m.turn[2] * dz - m.turn[1] * dx, m.half[3])
    /\ Reaches(layer, c, m.at[2] - m.half[2], m.at[2] + m.half[2])
Covers(layer, c, m) ==
    CASE m.kind = "cylinder" -> UnderCylinder(layer, c, m)
      [] m.kind = "box"      -> UnderBox(layer, c, m)
      [] m.kind = "oriented" -> UnderOrientedBox(layer, c, m)
MarkedLayer(layer, m) ==
    [layer EXCEPT !.cells = [c \in Grid(layer) |->
        IF Covers(layer, c, m) THEN [@[c] EXCEPT !.area = NullArea] ELSE @[c]]]

---------------------------------------------------------------------------
\* BuildTileCacheRegions: sweeps over cells that are level and of one area.
IsConnected(layer, a, b) ==
    /\ layer.cells[a].area = layer.cells[b].area
    /\ layer.cells[a].height - layer.cells[b].height \in -WalkableClimb..WalkableClimb
LinkedTo(layer, c, d) == Toward(c, d) \in Grid(layer) /\ IsConnected(layer, c, Toward(c, d))

SweptCell(layer, row, c) ==
    LET joins == LinkedTo(layer, c, 0) /\ row.reg[Toward(c, 0)] # 0
        meets == LinkedTo(layer, c, 3) /\ row.reg[Toward(c, 3)] # 0
        n == IF joins THEN row.reg[Toward(c, 0)] ELSE Len(row.sweeps) + 1
        begun == IF joins THEN row ELSE [row EXCEPT !.sweeps = Append(@, NoSweep)]
        met == IF meets THEN Met(begun, n, row.reg[Toward(c, 3)]) ELSE begun IN
    [met EXCEPT !.reg[c] = n]
SweptRow(layer, g, z) ==
    LET cells == SelectSeq([x \in 1..layer.w |-> <<x - 1, z>>],
                           LAMBDA c : layer.cells[c].area # NullArea)
        row == FoldLeft(LAMBDA r, c : SweptCell(layer, r, c),
                        [reg |-> g.reg, sweeps |-> <<>>, above |-> [r \in 1..g.next |-> 0]], cells)
        ids == SweepIds(row, g.next) IN
    [reg |-> [c \in Grid(layer) |-> IF c \in Range(cells) THEN ids[row.reg[c]] ELSE g.reg[c]],
     next |-> NextId(row, g.next)]
SweptRegions(layer) ==
    FoldLeft(LAMBDA g, z : SweptRow(layer, g, z), [reg |-> [c \in Grid(layer) |-> 0], next |-> 1],
             [n \in 1..layer.h |-> n - 1])

\* Each contact with a region above is noted on both sides, but not twice in a row.
AddUniqueLast(s, v) == IF s # <<>> /\ s[Len(s)] = v THEN s ELSE Append(s, v)
NeighbourLists(layer, reg, n) ==
    LET Note(all, c) ==
            LET r == reg[c]
                q == reg[Toward(c, 3)] IN
            [all EXCEPT ![r] = AddUniqueLast(@, q), ![q] = AddUniqueLast(@, r)]
        contacts == SelectSeq(InScan(layer), LAMBDA c :
                        /\ reg[c] # 0 /\ LinkedTo(layer, c, 3)
                        /\ reg[Toward(c, 3)] \notin {0, reg[c]}) IN
    FoldLeft(Note, [r \in 1..n |-> <<>>], contacts)

\* A region takes the id of its largest neighbour of the same area, if the two
\* ids meet in one place only.
MergesWith(ids, neis, old, new) ==
    Cardinality(UNION {{<<k, m>> : m \in {l \in DOMAIN neis[k] : ids[neis[k][l]] = new}} :
                       k \in {j \in DOMAIN ids : ids[j] = old}}) = 1
MergedLayerRegions(neis, size, area) ==
    LET Step(ids, r) ==
            LET worth == {m \in DOMAIN neis[r] : LET q == neis[r][m] IN
                            /\ ids[q] # ids[r] /\ area[q] = area[r]
                            /\ MergesWith(ids, neis, ids[r], ids[q])}
                best == Min({m \in worth : \A l \in worth : size[neis[r][l]] <= size[neis[r][m]]}) IN
            IF worth = {} THEN ids
            ELSE Listed([q \in DOMAIN ids |-> IF ids[q] = ids[r] THEN ids[neis[r][best]] ELSE ids[q]]) IN
    FoldLeft(Step, [r \in DOMAIN neis |-> r], [r \in DOMAIN neis |-> r])

\* The lists of neighbours are arrays that are not checked for their end.
TileRegions(layer) ==
    LET swept == SweptRegions(layer)
        n == swept.next - 1
        Of(r) == {c \in Grid(layer) : swept.reg[c] = r}
        neis == NeighbourLists(layer, swept.reg, n)
        ids == Ranked(MergedLayerRegions(neis, [r \in 1..n |-> Cardinality(Of(r))],
                          [r \in 1..n |-> layer.cells[CHOOSE c \in Of(r) : TRUE].area])) IN
    [fails |-> n > MaxRegions \/ \E r \in 1..n : Len(neis[r]) > MaxNeis,
     reg |-> [c \in Grid(layer) |-> IF swept.reg[c] = 0 THEN 0 ELSE ids[swept.reg[c]]]]

---------------------------------------------------------------------------
\* getNeighbourReg: what lies beyond a side of a cell, by the layer's
\* connections: a region as the code numbers it, a gate or a wall.
NeighbourReg(layer, regs, c, d) ==
    IF d \notin layer.cells[c].cons
    THEN IF d \in layer.cells[c].portals THEN Gate(d) ELSE Wall
    ELSE IF regs[Toward(c, d)] = 0 THEN Wall ELSE regs[Toward(c, d)] - 1
EdgeAt(layer, regs, c, d) == NeighbourReg(layer, regs, c, d) # regs[c] - 1

\* appendVertex: a straight piece with the same neighbour is drawn out.
AppendVertex(verts, p) ==
    LET n == Len(verts)
        a == verts[n - 1]
        b == verts[n] IN
    IF n > 1 /\ verts[n].r = p.r /\ (verts[n - 1].x = verts[n].x /\ verts[n].x = p.x)
    THEN [verts EXCEPT ![n].y = p.y, ![n].z = p.z]
    ELSE IF n > 1 /\ verts[n].r = p.r /\ (verts[n - 1].z = verts[n].z /\ verts[n].z = p.z)
    THEN [verts EXCEPT ![n].x = p.x, ![n].y = p.y]
    ELSE Append(verts, p)

\* walkContour, which gives up after as many steps as the layer has cells.
CornerOf(layer, regs, c, d) ==
    [x |-> c[1] + (IF d \in {1, 2} THEN 1 ELSE 0), y |-> layer.cells[c].height,
     z |-> c[2] + (IF d \in {0, 1} THEN 1 ELSE 0), r |-> NeighbourReg(layer, regs, c, d), area |-> FALSE]
RECURSIVE Walked(_, _, _, _, _)
Walked(layer, regs, walk, start, steps) ==
    LET c == walk.at[1]
        d == walk.at[2]
        edge == EdgeAt(layer, regs, c, d)
        verts == IF edge THEN Listed(AppendVertex(walk.verts, CornerOf(layer, regs, c, d))) ELSE walk.verts
        at == IF edge THEN <<c, Turned(d)>> ELSE <<Toward(c, d), Back(d)>> IN
    IF steps = layer.w * layer.h THEN walk
    ELSE IF steps > 0 /\ walk.at = start THEN [verts |-> verts, at |-> at, closed |-> TRUE]
    ELSE Walked(layer, regs, [walk EXCEPT !.verts = verts, !.at = at], start, steps + 1)

\* From the first cell of the region, at the first side that is an edge.
WalkedFrom(layer, regs, c) ==
    LET order == <<3, 0, 1, 2>>
        first == Min({k \in 1..4 : EdgeAt(layer, regs, c, order[k])})
        walk == Walked(layer, regs, [verts |-> <<>>, at |-> <<c, order[first]>>, closed |-> FALSE],
                       <<c, order[first]>>, 0)
        last == walk.verts[Len(walk.verts)] IN
    IF \A d \in Dirs : ~EdgeAt(layer, regs, c, d) THEN [verts |-> <<>>, closed |-> TRUE]
    ELSE IF SameSpot(last, walk.verts[1]) THEN [walk EXCEPT !.verts = Front(@)] ELSE walk

\* simplifyContour: every edge counts, and the first vertex is the first of those kept.
SimplifyLayer(points, error) ==
    LET Deviating(a, b) == Deviation(points, a, b, error)
        changes == Changes(points)
        places == Refined(Deviating, IF Len(changes) < 2 THEN FarCorners(points) ELSE changes, 1)
        start == CHOOSE m \in DOMAIN places :
                    /\ places[m] = Min(Range(places))
                    /\ \A l \in DOMAIN places : places[l] = places[m] => m <= l IN
    [m \in DOMAIN places |-> Pt(points, places[((start + m - 2) % Len(places)) + 1])]

\* getCornerHeight: the highest of the four cells around, and whether they are
\* one region at the side of the tile.
LayerCorner(layer, regs, p) ==
    LET around == {c \in ({p.x - 1, p.x} \X {p.z - 1, p.z}) \cap Grid(layer) :
                    /\ layer.cells[c].height - p.y \in -WalkableClimb..WalkableClimb
                    /\ layer.cells[c].area # NullArea}
        common == {d \in Dirs : \A c \in around : d \in layer.cells[c].portals} IN
    [height |-> Max({0} \cup {layer.cells[c].height : c \in around}),
     remove |-> /\ Cardinality(around) > 1 /\ Cardinality(common) = 1
                /\ Cardinality({regs[c] : c \in around}) = 1]

\* The neighbour is stored at the end of an edge; the side of a gate is kept
\* with its beginning.
StoredVertex(layer, regs, v, beyond) ==
    LET corner == LayerCorner(layer, regs, v) IN
    [x |-> v.x, y |-> corner.height, z |-> v.z, border |-> corner.remove,
     side |-> IF beyond \in Gate(0)..Wall - 1 THEN beyond - Gate(0) ELSE NoPortal]

\* BuildTileCacheContours: one contour for each region.  More vertices than the
\* buffer has room for are written past its end.
LayerContour(layer, regs, r, error) ==
    LET scan == InScan(layer)
        c == scan[Min({k \in DOMAIN scan : regs[scan[k]] = r})]
        walk == WalkedFrom(layer, regs, c)
        verts == SimplifyLayer(walk.verts, error)
        n == Len(verts) IN
    [reg |-> r, area |-> layer.cells[c].area, closed |-> walk.closed,
     fails |-> Len(walk.verts) > 4 * (layer.w + layer.h),
     verts |-> [k \in 1..n |-> StoredVertex(layer, regs, verts[k], verts[NextOf(k, n)].r)]]
LayerContours(layer, regs, error) ==
    Listed([r \in 1..Max({0} \cup Range(regs)) |-> LayerContour(layer, regs, r, error)])

---------------------------------------------------------------------------
\* triangulate has no second try with the loose test.
LayerTriangulate(verts) == EarClipped(StrictEar, Flagged(verts), <<>>)
AddLayerContour(mesh, contour) ==
    IF Len(contour.verts) < 3 THEN mesh
    ELSE AddTriangles(mesh, contour, LayerTriangulate(contour.verts), MaxVertsPerPoly)

\* The loops of canRemoveVertex and removeVertex pair each vertex with the one before.
InOrder(p) == [k \in 1..Len(p) |-> [from |-> p[PrevOf(k, Len(p))], to |-> p[k]]]
CanRemoveLayerVertex(mesh, v) ==
    /\ 2 * CornersAt(mesh.polys, v) <= MaxRemEdges
    /\ MayRemove(mesh, v, InOrder)

\* The filled hole; its polygons have an area but no region.
LayerHolePolys(hole, verts) ==
    LET tris == LayerTriangulate([k \in DOMAIN hole |-> verts[hole[k].v + 1]]) IN
    MergedPolys(Listed([k \in DOMAIN tris |->
                    [verts |-> [m \in 1..3 |-> hole[tris[k][m]].v],
                     reg |-> hole[tris[k][1]].reg, area |-> hole[tris[k][1]].area]]),
                verts, MaxVertsPerPoly)
\* removeVertex, with the slots behind the last polygon in mesh.spare.  The copy
\* over a polygon that is removed has no bound: the last polygon lands on it, and
\* the slots behind that one land on the polygons after it.
Slots(mesh) == [k \in DOMAIN mesh.polys |-> mesh.polys[k].verts] \o mesh.spare
Overwritten(mesh, i) ==
    LET n == Len(mesh.polys)
        slots == Slots(mesh)
        Copied(k) == IF k < i \/ n + k - i > Len(slots) THEN slots[k] ELSE slots[n + k - i] IN
    [mesh EXCEPT !.polys = [k \in 1..n - 1 |-> [@[IF k = i THEN n ELSE k] EXCEPT !.verts = Copied(k)]],
                 !.spare = [k \in 1..Len(slots) - n + 1 |-> Copied(n + k - 1)]]
RECURSIVE Emptied(_, _, _, _)
Emptied(mesh, rem, i, removed) ==
    IF i > Len(mesh.polys) THEN [mesh |-> mesh, removed |-> removed]
    ELSE IF Uses(mesh.polys[i], rem)
         THEN Emptied(Overwritten(mesh, i), rem, i, Append(removed, mesh.polys[i]))
         ELSE Emptied(mesh, rem, i + 1, removed)

\* What is stored lies over the first of these slots.
StoredLayerPolys(mesh, polys) ==
    LET n == Min({Len(polys), Len(mesh.spare)}) IN
    [mesh EXCEPT !.polys = @ \o SubSeq(polys, 1, n), !.spare = SubSeq(@, n + 1, Len(@))]
RemoveLayerVertex(mesh, rem) ==
    LET emptied == Emptied(mesh, rem, 1, <<>>)
        opened == OpenedFrom(emptied.mesh, emptied.removed, rem, InOrder)
        hole == Boundary(opened.edges) IN
    IF opened.edges = <<>> THEN opened.mesh
    ELSE IF MaxRemEdges < Higher(Len(opened.edges), Len(hole)) THEN [mesh EXCEPT !.broken = TRUE]
    ELSE IF Len(hole) < 3 THEN opened.mesh
    ELSE StoredLayerPolys(opened.mesh, LayerHolePolys(hole, opened.mesh.verts))

---------------------------------------------------------------------------
\* buildMeshAdjacency: an edge that runs back and finds none open is noted, and
\* an open edge along a gate of some contour becomes a portal.  So does one that
\* an edge of its own polygon claimed: the code takes that edge for a side.
LayerClaimed(s, backs) ==
    LET e == First(s.left)
        late == s.open \cap backs
        n == Newest(IF late = {} THEN s.open ELSE late)
        rest == [s EXCEPT !.left = @ \ {e}] IN
    IF s.open = {} THEN [rest EXCEPT !.open = {e}]
    ELSE IF n[1] = e[1] THEN [rest EXCEPT !.own = {x \in @ : x[1] # n} \cup {<<n, e>>}]
    ELSE [rest EXCEPT !.open = @ \ {n}, !.met = @ \cup {<<n, e>>}]
LayerEdgePairs(polys, a, b) ==
    LET backs == Along(polys, b, a)
        Claims[k \in 0..Cardinality(backs)] ==
            IF k = 0 THEN [open |-> Along(polys, a, b), left |-> backs, met |-> {}, own |-> {}]
            ELSE LayerClaimed(Claims[k - 1], backs)
    IN Claims[Cardinality(backs)]

Overlaps(a, b, c, d) == Lower(a, b) < Higher(c, d) /\ Higher(a, b) > Lower(c, d)
AlongGate(a, b, u, v) ==
    IF a.side \in {0, 2} THEN u.x = a.x /\ v.x = a.x /\ Overlaps(a.z, b.z, u.z, v.z)
    ELSE u.z = a.z /\ v.z = a.z /\ Overlaps(a.x, b.x, u.x, v.x)

\* The sides of the gates that run along an edge, in the order of the contours.
SidesOf(contours, u, v) ==
    LET Of(c) == LET n == Len(c.verts)
                     gates == SelectSeq([k \in 1..n |-> PrevOf(k, n)], LAMBDA k :
                                 /\ c.verts[k].side # NoPortal
                                 /\ AlongGate(c.verts[k], c.verts[NextOf(k, n)], u, v)) IN
                 [k \in DOMAIN gates |-> c.verts[gates[k]].side] IN
    FoldLeft(LAMBDA all, c : IF Len(c.verts) < 3 THEN all ELSE all \o Of(c), <<>>, contours)

LayerAdjacency(mesh, contours) ==
    LET Beyond(p, k) ==
            LET ring == mesh.polys[p].verts
                a == ring[k]
                b == Place(ring, k + 1)
                pairs == IF a < b THEN LayerEdgePairs(mesh.polys, a, b)
                         ELSE LayerEdgePairs(mesh.polys, b, a)
                sides == SidesOf(contours, mesh.verts[a + 1], mesh.verts[b + 1])
                own == {x[2][2] - 1 : x \in {y \in pairs.own : y[1] = <<p, k>>}}
                met == Opposed(pairs.met, <<p, k>>) IN
            IF a # b /\ met # {} THEN Max({f[1] - 1 : f \in met})
            ELSE IF a # b /\ sides # <<>> THEN Portal(Last(sides))
            ELSE IF a # b /\ own # {} THEN Portal(Max(own)) ELSE NullIdx IN
    [p \in DOMAIN mesh.polys |-> [k \in DOMAIN mesh.polys[p].verts |-> Beyond(p, k)]]
=============================================================================
