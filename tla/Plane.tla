------------------------------- MODULE Plane -------------------------------
\* Sequences, and integer geometry in the x/z plane, shared by contours and polygons.
EXTENDS Integers, Sequences

\* The same sequence, in a form that TLC does not evaluate again at every use.
Listed(s) == s \o <<>>

SameSpot(a, b) == a.x = b.x /\ a.z = b.z
Area2(a, b, c) == (b.x - a.x) * (c.z - a.z) - (c.x - a.x) * (b.z - a.z)
LeftOf(a, b, c) == Area2(a, b, c) < 0
LeftOn(a, b, c) == Area2(a, b, c) <= 0
Collinear(a, b, c) == Area2(a, b, c) = 0

IntersectProp(a, b, c, d) ==
    /\ ~Collinear(a, b, c) /\ ~Collinear(a, b, d) /\ ~Collinear(c, d, a) /\ ~Collinear(c, d, b)
    /\ LeftOf(a, b, c) # LeftOf(a, b, d) /\ LeftOf(c, d, a) # LeftOf(c, d, b)
Within(p, q, r) == (p <= r /\ r <= q) \/ (p >= r /\ r >= q)
OnSegment(a, b, c) ==
    Collinear(a, b, c) /\ IF a.x # b.x THEN Within(a.x, b.x, c.x) ELSE Within(a.z, b.z, c.z)
Intersect(a, b, c, d) ==
    \/ IntersectProp(a, b, c, d)
    \/ OnSegment(a, b, c) \/ OnSegment(a, b, d) \/ OnSegment(c, d, a) \/ OnSegment(c, d, b)

SquaredDistance(a, b) == (b.x - a.x) * (b.x - a.x) + (b.z - a.z) * (b.z - a.z)

\* Squared length of the segment from a to b, 1 if it has none, and the squared
\* distance of p from it in units of one by that.
SegLength(a, b) == IF SameSpot(a, b) THEN 1 ELSE SquaredDistance(a, b)
SegDistance(p, a, b) ==
    LET along == (b.x - a.x) * (p.x - a.x) + (b.z - a.z) * (p.z - a.z) IN
    IF along <= 0 THEN SegLength(a, b) * SquaredDistance(a, p)
    ELSE IF along >= SegLength(a, b) THEN SegLength(a, b) * SquaredDistance(b, p)
    ELSE Area2(a, b, p) * Area2(a, b, p)

NextOf(i, n) == (i % n) + 1
PrevOf(i, n) == ((i + n - 2) % n) + 1

\* Whether pj lies in the cone at corner i of the ring v of n vertices.
InCone(v, i, pj) ==
    LET pi == v[i]
        after == v[NextOf(i, Len(v))]
        before == v[PrevOf(i, Len(v))] IN
    IF LeftOn(before, pi, after) THEN LeftOf(pi, pj, before) /\ LeftOf(pj, pi, after)
    ELSE ~(LeftOn(pi, pj, after) /\ LeftOn(pj, pi, before))

InConeLoose(v, i, pj) ==
    LET pi == v[i]
        after == v[NextOf(i, Len(v))]
        before == v[PrevOf(i, Len(v))] IN
    IF LeftOn(before, pi, after) THEN LeftOn(pi, pj, before) /\ LeftOn(pj, pi, after)
    ELSE ~(LeftOn(pi, pj, after) /\ LeftOn(pj, pi, before))

\* Whether the segment from p to q meets an edge of the ring that does not
\* start or end in it and does not touch one of the corners in skip.
Crosses(p, q, v, skip, Meet(_, _, _, _)) ==
    \E k \in DOMAIN v :
        LET m == NextOf(k, Len(v)) IN
        /\ {k, m} \cap skip = {}
        /\ \A s \in {p, q}, t \in {v[k], v[m]} : ~SameSpot(s, t)
        /\ Meet(p, q, v[k], v[m])

\* Twice the signed area of a ring.
RingArea2(v) ==
    LET Term[k \in 0..Len(v)] ==
            IF k = 0 THEN 0
            ELSE Term[k - 1] + v[k].x * v[PrevOf(k, Len(v))].z - v[PrevOf(k, Len(v))].x * v[k].z IN
    Term[Len(v)]
=============================================================================
