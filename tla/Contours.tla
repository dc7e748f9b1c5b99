------------------------------ MODULE Contours ------------------------------
(***************************************************************************)
(* Contours of regions: tracing along the edges of spans, simplifying, and  *)
(* cutting holes open.  A point of a traced contour is [x, y, z, r, border, *)
(* area]: the corner a span's edge ends at, the region beyond the edge and  *)
(* the code's two flags.  A vertex of a contour has the same fields, r and  *)
(* area being those of the edge that begins there.  Floating-point          *)
(* distances are compared exactly, as fractions.                            *)
(***************************************************************************)
EXTENDS Regions, Plane

Back(d) == (d + 3) % 4

---------------------------------------------------------------------------
\* getCornerHeight: the highest of the four spans around a corner, and
\* whether the corner is one where a border strip meets two regions.
Corner(spans, con, areas, reg, i, d) ==
    LET e == Turned(d)
        across == IF con[i][e] # None /\ con[con[i][e]][d] # None THEN con[con[i][e]][d]
                  ELSE Via(con, i, d, e)
        around == <<i, con[i][d], across, con[i][e]>>
        seen == ({i, con[i][d], con[i][e], Via(con, i, d, e), Via(con, i, e, d)}) \ {None}
        Of(n) == IF n = None THEN <<0, 0>> ELSE <<reg[n], areas[n]>>
        ring == [k \in 1..4 |-> Of(around[k])]
        Is(k) == LET a == ring[k]
                     b == ring[(k % 4) + 1]
                     c == ring[((k + 1) % 4) + 1]
                     f == ring[((k + 2) % 4) + 1] IN
                 /\ Bordering(a[1]) /\ a = b
                 /\ ~Bordering(c[1]) /\ ~Bordering(f[1]) /\ c[2] = f[2]
                 /\ <<0, 0>> \notin {c, f} IN
    [y |-> Max({spans[n].y : n \in seen}), border |-> \E k \in 1..4 : Is(k)]

\* The point at the end of edge d of span i.
PointAt(spans, con, areas, reg, i, d) ==
    LET corner == Corner(spans, con, areas, reg, i, d)
        n == con[i][d] IN
    [x |-> spans[i].x + (IF d \in {1, 2} THEN 1 ELSE 0), y |-> corner.y,
     z |-> spans[i].z + (IF d \in {0, 1} THEN 1 ELSE 0),
     r |-> Facing(con, reg, i, d), border |-> corner.border,
     area |-> n # None /\ areas[n] # areas[i]]

\* walkContour, which clears the flags <<span, side>> of the edges it passes.
RECURSIVE WalkContour(_, _, _, _, _, _)
WalkContour(spans, con, areas, reg, walk, start) ==
    LET i == walk.at[1]
        d == walk.at[2]
        edge == walk.at \in walk.flags
        at == IF edge THEN <<i, Turned(d)>> ELSE <<con[i][d], Back(d)>>
        then == [at |-> at, flags |-> walk.flags \ {walk.at},
                 points |-> IF edge THEN Append(walk.points, PointAt(spans, con, areas, reg, i, d))
                            ELSE walk.points] IN
    IF ~edge /\ con[i][d] = None THEN walk
    ELSE IF at = start THEN then ELSE WalkContour(spans, con, areas, reg, then, start)

---------------------------------------------------------------------------
\* simplifyContour.  Places in the traced contour count from 0, as in the code.
Kept(p) == p.r # 0
Edgewise(points, k, step) == (k + step) % Len(points)
Pt(points, k) == points[k + 1]

\* Where the simplified contour begins: at changes of region or area, or else
\* at the lower left and the upper right corner.
Changes(points) ==
    SelectSeq([k \in 1..Len(points) |-> k - 1],
              LAMBDA k : LET p == Pt(points, k)
                             q == Pt(points, Edgewise(points, k, 1)) IN
                         p.r # q.r \/ p.area # q.area)
Extreme(points, Beyond(_, _)) ==
    Min({k \in 0..Len(points) - 1 : \A m \in 0..Len(points) - 1 :
            ~Beyond(Pt(points, m), Pt(points, k))})
Before(p, q) == p.x < q.x \/ (p.x = q.x /\ p.z < q.z)
FarCorners(points) == <<Extreme(points, Before), Extreme(points, LAMBDA p, q : Before(q, p))>>
Beginning(points) ==
    LET changes == IF \E p \in Range(points) : Kept(p) THEN Changes(points) ELSE <<>> IN
    IF changes # <<>> THEN changes ELSE FarCorners(points)

\* The places strictly between two vertices in the order the code visits them:
\* from the lower left end to the other, whichever way the contour runs.
ForwardMut(points, a, b) == TRUE
Forward(points, a, b) == Before(Pt(points, a), Pt(points, b))
Between(points, a, b) ==
    LET n == Len(points)
        count == (b - a + n - 1) % n
        ahead == [m \in 1..count |-> (a + m) % n] IN
    IF Forward(points, a, b) THEN ahead ELSE Reverse(ahead)

\* The place that is furthest from the segment, the first of them, if it is
\* further than the error allows.
Deviation(points, a, b, error) ==
    LET between == Between(points, a, b)
        Away(k) == SegDistance(Pt(points, k), Pt(points, a), Pt(points, b))
        best == Min({m \in DOMAIN between : \A l \in DOMAIN between : Away(between[l]) <= Away(between[m])}) IN
    IF between = <<>> THEN {}
    ELSE {k \in {between[best]} :
            Away(k) > 0 /\ error.den * Away(k) > error.num * SegLength(Pt(points, a), Pt(points, b))}
\* Only walls and edges between areas count.
Furthest(points, a, b, error) ==
    LET first == Pt(points, IF Forward(points, a, b) THEN Edgewise(points, a, 1)
                            ELSE Edgewise(points, b, Len(points) - 1)) IN
    IF first.r # 0 /\ ~first.area THEN {} ELSE Deviation(points, a, b, error)

\* The middle of a segment that is too long and is to be cut.
Middle(points, a, b, tess) ==
    LET n == Len(points)
        count == IF b < a THEN b + n - a ELSE b - a
        first == Pt(points, Edgewise(points, a, 1))
        wanted == (tess.walls /\ first.r = 0) \/ (tess.areas /\ first.area)
        mid == (a + (IF Forward(points, a, b) THEN count \div 2 ELSE (count + 1) \div 2)) % n IN
    IF wanted /\ count > 1 /\ SquaredDistance(Pt(points, a), Pt(points, b)) > tess.length * tess.length
    THEN {mid} ELSE {}

\* Both loops of the code: insert a place after the i-th as long as there is one.
RECURSIVE Refined(_, _, _)
Refined(Insert(_, _), places, i) ==
    LET new == Insert(places[i], places[(i % Len(places)) + 1]) IN
    IF i > Len(places) THEN places
    ELSE IF new = {} THEN Refined(Insert, places, i + 1)
    ELSE Refined(Insert, InsertAt(places, i + 1, CHOOSE k \in new : TRUE), i)

SimplifyContour(points, error, tess) ==
    LET Deviating(a, b) == Furthest(points, a, b, error)
        Cut(a, b) == Middle(points, a, b, tess)
        fitted == Refined(Deviating, Beginning(points), 1)
        places == IF tess.length > 0 THEN Refined(Cut, fitted, 1) ELSE fitted IN
    [m \in DOMAIN places |->
        LET p == Pt(points, places[m])
            edge == Pt(points, Edgewise(points, places[m], 1)) IN
        [p EXCEPT !.r = edge.r, !.area = edge.area]]

\* removeDegenerateSegments looks at each place once, also after a removal.
RECURSIVE WithoutDegenerate(_, _)
WithoutDegenerate(verts, i) ==
    IF i > Len(verts) THEN verts
    ELSE IF SameSpot(verts[i], verts[(i % Len(verts)) + 1])
         THEN WithoutDegenerate(RemoveAt(verts, i), i + 1)
         ELSE WithoutDegenerate(verts, i + 1)

---------------------------------------------------------------------------
\* BuildContours, first half: the contours in the order of the spans they were
\* started from.  A span is started from once, and a region of one span never.
Shifted(p, border) == [p EXCEPT !.x = @ - border, !.z = @ - border]
EdgeFlags(con, reg) ==
    {f \in (DOMAIN reg) \X Dirs :
        /\ reg[f[1]] # 0 /\ ~Bordering(reg[f[1]])
        /\ SolidEdge(con, reg, f[1], f[2])}
TraceContours(spans, con, areas, reg, plan) ==
    LET Trace(c, i) ==
            LET sides == {d \in Dirs : <<i, d>> \in c.flags}
                start == <<i, Min(sides)>>
                walk == WalkContour(spans, con, areas, reg,
                                    [at |-> start, flags |-> c.flags, points |-> <<>>], start)
                verts == WithoutDegenerate(SimplifyContour(walk.points, plan.error, plan.tess), 1)
                contour == [verts |-> [k \in DOMAIN verts |-> Shifted(verts[k], plan.border)],
                            reg |-> reg[i], area |-> areas[i]] IN
            IF sides \in {{}, Dirs}
            THEN [c EXCEPT !.flags = {f \in @ : f[1] # i}]
            ELSE [flags |-> walk.flags,
                  contours |-> IF Len(verts) < 3 THEN c.contours ELSE Append(c.contours, contour)] IN
    FoldLeft(Trace, [flags |-> EdgeFlags(con, reg), contours |-> <<>>],
             [i \in DOMAIN spans |-> i]).contours

\* Second half.  The area is rounded, so that the ring around a hole of one
\* cell counts as an outline.
IsHole(contour) == RingArea2(contour.verts) <= -3
Leftmost(verts) == Extreme(verts, Before) + 1

\* Where to cut from the outline to the hole: at its first corner, from the
\* leftmost on, that sees the outline, and to the nearest place it sees.
Bridges(outline, hole, holes) ==
    LET n == Len(hole)
        Place(t) == ((Leftmost(hole) - 1 + t) % n) + 1 IN
    {[attempt |-> b[1], from |-> b[2], to |-> Place(b[1]),
      length |-> SquaredDistance(outline[b[2]], hole[Place(b[1])])] :
        b \in {c \in (0..n - 1) \X (DOMAIN outline) :
                LET p == outline[c[2]]
                    q == hole[Place(c[1])] IN
                /\ InCone(outline, c[2], q)
                /\ ~Crosses(p, q, outline, {c[2]}, Intersect)
                /\ \A h \in Range(holes) : ~Crosses(p, q, h, {}, Intersect)}}
Preferred(b, c) ==
    \/ b.attempt < c.attempt
    \/ b.attempt = c.attempt /\ b.length < c.length
    \/ b.attempt = c.attempt /\ b.length = c.length /\ b.from <= c.from

RotatedMut(verts, k) == [m \in 1..Len(verts) |-> verts[((k + m - 2) % Len(verts)) + 1]]
\* mergeContours: both rings from the cut on, and back to it.
Rotated(verts, k) == [m \in 1..Len(verts) + 1 |-> verts[((k + m - 2) % Len(verts)) + 1]]
CutOpen(outline, hole, bridge) == Rotated(outline, bridge.from) \o Rotated(hole, bridge.to)

\* mergeRegionHoles; an emptied contour stays in the set.
MergeRegionHoles(contours, outline, holes) ==
    LET order == SortSeq(holes, LAMBDA a, b : LET v == contours[a].verts w == contours[b].verts IN
                                    Before(v[Leftmost(v)], w[Leftmost(w)]))
        Open(cs, k) ==
            LET rest == [m \in 1..Len(order) - k + 1 |-> contours[order[k + m - 1]].verts]
                bridges == Bridges(cs[outline].verts, rest[1], rest)
                bridge == CHOOSE b \in bridges : \A c \in bridges : Preferred(b, c) IN
            IF bridges = {} THEN cs
            ELSE [cs EXCEPT ![outline].verts = CutOpen(@, rest[1], bridge),
                            ![order[k]].verts = <<>>] IN
    FoldLeft(Open, contours, [k \in DOMAIN order |-> k])

CutHoles(contours) ==
    LET Region(cs, r) ==
            LET mine == SelectSeq([k \in DOMAIN contours |-> k], LAMBDA k : contours[k].reg = r)
                holes == SelectSeq(mine, LAMBDA k : IsHole(contours[k]))
                outlines == Range(mine) \ Range(holes) IN
            IF holes = <<>> \/ outlines = {} THEN cs
            ELSE MergeRegionHoles(cs, Max(outlines), holes) IN
    FoldLeft(Region, contours, SetToSortSeq({c.reg : c \in Range(contours)}, <))

BuildContours(spans, con, areas, reg, plan) ==
    CutHoles(TraceContours(spans, con, areas, reg, plan))
=============================================================================
