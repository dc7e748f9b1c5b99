---------------------------- MODULE CompactField ----------------------------
(***************************************************************************)
(* The open space above a heightfield: its compact form, connections        *)
(* between neighbouring spans, and the operations that change areas.  Spans *)
(* are numbered from 1 in the order of the arrays, column by column.        *)
(***************************************************************************)
EXTENDS Heightfield, Plane, SequencesExt

CONSTANTS MaxLayers,      \* the highest layer a connection can name
          MaxClearance,   \* the largest height a compact span can hold
          MaxDistance     \* and the largest distance of the erosion

\* One-based indices; 0 says NotConnected.
None == 0
Dirs == 0..3
Opposite(d) == (d + 2) % 4
Turned(d) == (d + 1) % 4
OffsetX(d) == <<-1, 0, 1, 0>>[d + 1]
OffsetZ(d) == <<0, 1, 0, -1>>[d + 1]

---------------------------------------------------------------------------
\* BuildCompactHeightfield: the spans, in the order of columns and heights.
Walkable(field) == UNION {{[cell |-> c, floor |-> s] : s \in {t \in field[c] : t.area # NullArea}} :
                          c \in Cells}
Earlier(a, b) ==
    \/ a.cell[2] < b.cell[2]
    \/ a.cell[2] = b.cell[2] /\ a.cell[1] < b.cell[1]
    \/ a.cell = b.cell /\ a.floor.lo < b.floor.lo
Numbered(field) ==
    LET places == Walkable(field) IN
    [i \in 1..Cardinality(places) |->
        CHOOSE p \in places : Cardinality({q \in places : Earlier(q, p)}) = i - 1]

CompactSpans(field) ==
    LET places == Numbered(field) IN
    [i \in DOMAIN places |->
        LET p == places[i] IN
        [x |-> p.cell[1], z |-> p.cell[2], y |-> p.floor.hi,
         h |-> Clamp(Ceiling(field[p.cell], p.floor) - p.floor.hi, 0, MaxClearance)]]
SpanAreas(field) ==
    LET places == Numbered(field) IN [i \in DOMAIN places |-> places[i].floor.area]

CompatibleMut(s, t) ==
    /\ Lower(s.y + s.h, t.y + t.h) - Higher(s.y, t.y) >= WalkableHeight
    /\ t.y - s.y <= WalkableClimb
\* A neighbour one can walk to: enough headroom and a small step.
Compatible(s, t) ==
    /\ Lower(s.y + s.h, t.y + t.h) - Higher(s.y, t.y) >= WalkableHeight
    /\ t.y - s.y \in -WalkableClimb..WalkableClimb

Beside(s, t, d) == t.x = s.x + OffsetX(d) /\ t.z = s.z + OffsetZ(d)
Layer(spans, j) == Cardinality({i \in DOMAIN spans : i < j /\ spans[i].x = spans[j].x
                                                          /\ spans[i].z = spans[j].z})

Candidates(spans, i, d) ==
    {j \in DOMAIN spans : /\ Beside(spans[i], spans[j], d)
                          /\ Compatible(spans[i], spans[j])
                          /\ Layer(spans, j) <= MaxLayers}
\* The lowest candidate, which comes first in the cell.
Connections(spans) ==
    [i \in DOMAIN spans |-> [d \in Dirs |->
        LET found == Candidates(spans, i, d) IN IF found = {} THEN None ELSE Min(found)]]

\* The span reached by two steps, None if one of them is missing.
Via(con, i, d, e) == IF con[i][d] = None THEN None ELSE con[con[i][d]][e]

---------------------------------------------------------------------------
\* The chamfer distance of ErodeWalkableArea and of the distance field: two
\* scans, each looking at the neighbours visited before, straight ones at
\* distance 2 and diagonal ones at 3.  Up gives what the code adds.
Relaxed(con, dist, i, ways, Up(_, _)) ==
    LET straight == {Up(dist[con[i][w[1]]], 2) : w \in {v \in ways : con[i][v[1]] # None}}
        diagonal == {Up(dist[Via(con, i, w[1], w[2])], 3) :
                        w \in {v \in ways : Via(con, i, v[1], v[2]) # None}} IN
    [dist EXCEPT ![i] = Min({@} \cup straight \cup diagonal)]

FirstWays == {<<0, 3>>, <<3, 2>>}
SecondWays == {<<2, 1>>, <<1, 0>>}

\* The second scan passes over the columns in reverse, over each upwards.
ReverseOrder(spans) ==
    SortSeq([i \in DOMAIN spans |-> i],
            LAMBDA i, j : LET s == spans[i] t == spans[j] IN
                IF s.z # t.z THEN s.z > t.z ELSE IF s.x # t.x THEN s.x > t.x ELSE i < j)

Chamfer(spans, con, start, Up(_, _)) ==
    LET Pass1(dist, i) == Relaxed(con, dist, i, FirstWays, Up)
        Pass2(dist, i) == Relaxed(con, dist, i, SecondWays, Up) IN
    FoldLeft(Pass2, FoldLeft(Pass1, Listed(start), [i \in DOMAIN spans |-> i]), ReverseOrder(spans))

\* ErodeWalkableArea
AtEdge(con, areas, i) ==
    \/ areas[i] = NullArea
    \/ \E d \in Dirs : con[i][d] = None \/ areas[con[i][d]] = NullArea
Saturating(v, step) == Lower(v + step, MaxDistance)
ErosionDistance(spans, con, areas) ==
    Chamfer(spans, con, [i \in DOMAIN spans |-> IF AtEdge(con, areas, i) THEN 0 ELSE MaxDistance],
            Saturating)
Eroded(spans, con, areas, radius) ==
    LET dist == ErosionDistance(spans, con, areas) IN
    [i \in DOMAIN spans |-> IF dist[i] < (2 * radius) % (MaxDistance + 1) THEN NullArea
                            ELSE areas[i]]

\* MedianFilterWalkableArea: the fifth of nine areas, each null or missing
\* neighbour counting as the span's own.
Median(con, areas, i) ==
    LET Seen(j) == IF j = None THEN areas[i] ELSE IF areas[j] = NullArea THEN areas[i] ELSE areas[j]
        seen == [n \in 1..9 |->
                    IF n = 9 THEN areas[i]
                    ELSE LET d == (n - 1) \div 2 IN
                         IF n % 2 = 1 THEN Seen(con[i][d]) ELSE Seen(Via(con, i, d, Turned(d)))] IN
    CHOOSE a \in {seen[n] : n \in 1..9} :
        /\ Cardinality({n \in 1..9 : seen[n] < a}) < 5
        /\ Cardinality({n \in 1..9 : seen[n] <= a}) >= 5
MedianFiltered(con, areas) ==
    [i \in DOMAIN areas |-> IF areas[i] = NullArea THEN NullArea ELSE Median(con, areas, i)]

\* MarkBoxArea, MarkCylinderArea and MarkConvexPolyArea, with lengths in units
\* of 1/Sub of a cell.  Cells are found by truncation towards zero, so a volume
\* that ends just before the grid still marks its first row.
Truncated(v) == IF v >= 0 THEN v \div Sub ELSE -((-v) \div Sub)
InBounds(s, min, max) ==
    /\ s.x \in Truncated(min[1])..Truncated(max[1])
    /\ s.y \in Truncated(min[2])..Truncated(max[2])
    /\ s.z \in Truncated(min[3])..Truncated(max[3])
InBox(s, m) == InBounds(s, m.min, m.max)
InCylinder(s, m) ==
    LET dx == 2 * Sub * s.x + Sub - 2 * m.at[1]
        dz == 2 * Sub * s.z + Sub - 2 * m.at[3] IN
    /\ InBounds(s, <<m.at[1] - m.radius, m.at[2], m.at[3] - m.radius>>,
                   <<m.at[1] + m.radius, m.at[2] + m.height, m.at[3] + m.radius>>)
    /\ dx * dx + dz * dz < 4 * m.radius * m.radius

\* PointInPoly for the middle <<x, z>> of a cell, in units of half of 1/Sub:
\* the sides to the right of it are odd in number.
SidesBeyond(x, z, corners) ==
    {k \in DOMAIN corners :
        LET i == corners[k]
            j == corners[IF k = 1 THEN Len(corners) ELSE k - 1]
            run == 2 * (j[2] - i[2])
            cut == 2 * (j[1] - i[1]) * (z - 2 * i[2]) - (x - 2 * i[1]) * run IN
        /\ (2 * i[2] > z) # (2 * j[2] > z)
        /\ IF run > 0 THEN cut > 0 ELSE cut < 0}
InPoly(s, m) ==
    LET xs == {m.corners[k][1] : k \in DOMAIN m.corners}
        zs == {m.corners[k][2] : k \in DOMAIN m.corners} IN
    /\ InBounds(s, <<Min(xs), m.low, Min(zs)>>, <<Max(xs), m.high, Max(zs)>>)
    /\ Cardinality(SidesBeyond(2 * Sub * s.x + Sub, 2 * Sub * s.z + Sub, m.corners)) % 2 = 1

InVolume(s, m) ==
    CASE m.kind = "box"      -> InBox(s, m)
      [] m.kind = "cylinder" -> InCylinder(s, m)
      [] m.kind = "poly"     -> InPoly(s, m)
MarkedArea(spans, areas, m) ==
    [i \in DOMAIN spans |-> IF areas[i] # NullArea /\ InVolume(spans[i], m) THEN m.area
                            ELSE areas[i]]

---------------------------------------------------------------------------
\* Spans of one column lie above one another, clearance included.
Stacked(spans) ==
    \A i, j \in DOMAIN spans :
        i < j /\ spans[i].x = spans[j].x /\ spans[i].z = spans[j].z =>
            spans[i].y + spans[i].h <= spans[j].y

\* Connections lead back, unless a column has more layers than they can name.
Mutual(spans, con) ==
    (\A j \in DOMAIN spans : Layer(spans, j) <= MaxLayers) =>
        \A i \in DOMAIN spans, d \in Dirs :
            con[i][d] # None => con[con[i][d]][Opposite(d)] = i

\* What a chamfer distance is: no neighbour offers less, and one offers just that.
Offers(con, dist, i) ==
    {dist[con[i][d]] + 2 : d \in {e \in Dirs : con[i][e] # None}}
    \cup {dist[Via(con, i, w[1], w[2])] + 3 :
            w \in {v \in FirstWays \cup SecondWays : Via(con, i, v[1], v[2]) # None}}
Exact(con, dist, limit) ==
    \A i \in DOMAIN dist :
        dist[i] # 0 => Lower(limit, Min(Offers(con, dist, i))) = dist[i]
=============================================================================
