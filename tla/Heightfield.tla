---------------------------- MODULE Heightfield ----------------------------
(***************************************************************************)
(* The solid heightfield of package recast: columns of spans that triangles *)
(* are rasterized into, and the three filters.  A column is the set of the  *)
(* spans in its linked list; the list is in the order of their heights.     *)
(* What clipping a triangle against the grid yields is an input: a shape    *)
(* gives some cells a range of heights, in units of 1/Sub of a cell.        *)
(***************************************************************************)
EXTENDS Integers, FiniteSets, FiniteSetsExt

CONSTANTS Width, Height,       \* size of the grid
          Scenes,              \* each a set of shapes
          Sub,
          MaxHeight,           \* SpanMaxHeight
          HighestCeiling,      \* MaxHeightfieldHeight
          FlagMergeThreshold,
          WalkableHeight, WalkableClimb

Cells == (0..Width - 1) \X (0..Height - 1)

ASSUME GridAssumption ==
    /\ Width \in Nat /\ Height \in Nat /\ Sub \in Nat \ {0} /\ MaxHeight \in Nat
    /\ WalkableHeight \in Nat /\ WalkableClimb \in Nat
    /\ \A scene \in Scenes : \A shape \in scene : \A c \in DOMAIN shape :
        shape[c].bottom \in Int /\ shape[c].top \in Int

NullArea == 0

VARIABLES columns,     \* [cell -> the spans [lo, hi, area] of hf.Spans]
          todo, done   \* the shapes still to rasterize, and those rasterized

Clamp(v, low, high) == IF v < low THEN low ELSE IF v > high THEN high ELSE v

Floor(v) == v \div Sub
Ceil(v) == -((-v) \div Sub)

\* A piece of a triangle that meets the bounding box, snapped to the grid.
By == MaxHeight * Sub
Inside(r) == r.top >= 0 /\ r.bottom <= By
Snapped(r) ==
    LET lo == Clamp(Floor(Clamp(r.bottom, 0, By)), 0, MaxHeight) IN
    [lo |-> lo, hi |-> Clamp(Ceil(Clamp(r.top, 0, By)), lo + 1, MaxHeight), area |-> r.area]

---------------------------------------------------------------------------
\* addSpan: the spans that the new one touches are merged into it and freed.

TouchesMut(s, new) == s.lo <= new.hi /\ s.hi > new.lo
Touches(s, new) == s.lo <= new.hi /\ s.hi >= new.lo

MergedMut(column, new) ==
    LET touched == {s \in column : Touches(s, new)}
        below == {s \in touched : s.lo < new.lo}
        level == {s \in touched : new.hi - s.hi <= FlagMergeThreshold} IN
    [lo |-> IF below = {} THEN new.lo ELSE (CHOOSE s \in below : TRUE).lo, hi |-> new.hi,
     area |-> Max({new.area} \cup {s.area : s \in level})]
Merged(column, new) ==
    LET touched == {s \in column : Touches(s, new)}
        below == {s \in touched : s.lo < new.lo}
        above == {s \in touched : s.hi > new.hi}
        level == {s \in touched : new.hi - s.hi <= FlagMergeThreshold} IN
    [lo |-> IF below = {} THEN new.lo ELSE (CHOOSE s \in below : TRUE).lo,
     hi |-> IF above = {} THEN new.hi ELSE (CHOOSE s \in above : TRUE).hi,
     area |-> Max({new.area} \cup {s.area : s \in level})]

AddSpan(column, new) == {s \in column : ~Touches(s, new)} \cup {Merged(column, new)}

\* rasterizeTri, and the scene it starts with.
Rasterize(shape) ==
    /\ shape \in todo
    /\ todo' = todo \ {shape}
    /\ done' = done \cup {shape}
    /\ columns' = [c \in Cells |->
                    IF c \in DOMAIN shape /\ Inside(shape[c])
                    THEN AddSpan(columns[c], Snapped(shape[c])) ELSE columns[c]]

Empty == /\ columns = [c \in Cells |-> {}]
         /\ todo \in Scenes
         /\ done = {}

---------------------------------------------------------------------------
\* The filters change areas only.

Above(column, s) == {t \in column : t.lo > s.hi}
Ceiling(column, s) == Min({t.lo : t \in Above(column, s)} \cup {HighestCeiling})

\* FilterLowHangingWalkableObstacles: a low step on something walkable.
Supports(column, s, p) ==
    /\ p.hi < s.lo
    /\ \A q \in column : q.hi < s.lo => q.hi <= p.hi
    /\ p.area # NullArea
    /\ s.hi - p.hi <= WalkableClimb
LowHanging(column) ==
    {IF s.area = NullArea /\ \E p \in column : Supports(column, s, p)
     THEN [s EXCEPT !.area = (CHOOSE p \in column : Supports(column, s, p)).area]
     ELSE s : s \in column}

\* FilterWalkableLowHeightSpans
LowCeiling(column) ==
    {IF Ceiling(column, s) - s.hi < WalkableHeight THEN [s EXCEPT !.area = NullArea]
     ELSE s : s \in column}

\* FilterLedgeSpans: beside the border or a drop, or on too steep a slope.
Sides(c) == {<<c[1] - 1, c[2]>>, <<c[1], c[2] + 1>>, <<c[1] + 1, c[2]>>, <<c[1], c[2] - 1>>}
Lower(a, b) == IF a < b THEN a ELSE b
Higher(a, b) == IF a > b THEN a ELSE b

\* The neighbour of s in direction n has no ground to stop a fall.
OpenSide(field, n, s, ceiling) ==
    \/ n \notin Cells
    \/ Lower(ceiling, Min({t.lo : t \in field[n]} \cup {HighestCeiling})) - s.hi >= WalkableHeight
Reachable(field, n, s, ceiling) ==
    {t.hi : t \in {u \in field[n] :
        Lower(ceiling, Ceiling(field[n], u)) - Higher(s.hi, u.hi) >= WalkableHeight}}

IsLedge(field, c, s) ==
    LET ceiling == Ceiling(field[c], s)
        floors == UNION {Reachable(field, n, s, ceiling) : n \in Sides(c) \cap Cells}
        level == {s.hi} \cup {f \in floors : f - s.hi \in -WalkableClimb..WalkableClimb} IN
    \/ \E n \in Sides(c) : OpenSide(field, n, s, ceiling)
    \/ \E f \in floors : f - s.hi < -WalkableClimb
    \/ Max(level) - Min(level) > WalkableClimb
Ledges(field) ==
    [c \in Cells |-> {IF s.area # NullArea /\ IsLedge(field, c, s)
                      THEN [s EXCEPT !.area = NullArea] ELSE s : s \in field[c]}]

\* The filters that a build applies, in the order of the README.
FilterSpans(steps, ledges, clearance) ==
    LET low == [c \in Cells |-> IF steps THEN LowHanging(columns[c]) ELSE columns[c]]
        level == IF ledges THEN Ledges(low) ELSE low IN
    /\ columns' = [c \in Cells |-> IF clearance THEN LowCeiling(level[c]) ELSE level[c]]
    /\ UNCHANGED <<todo, done>>

\* Any calls of a program that has only this heightfield.
FieldNext ==
    \/ \E shape \in todo : Rasterize(shape)
    \/ \E steps, ledges, clearance \in BOOLEAN : FilterSpans(steps, ledges, clearance)
FieldSpec == Empty /\ [][FieldNext]_<<columns, todo, done>>

---------------------------------------------------------------------------
\* Every pair of spans of a column leaves a gap: one of them was merged otherwise.
Apart(column) == \A s, t \in column : s = t \/ s.hi < t.lo \/ t.hi < s.lo
Separated == \A c \in Cells : Apart(columns[c])

\* A column is solid exactly where some piece of a triangle rasterized so far
\* is, whatever the order in which addSpan got them.
Solid(column) == UNION {s.lo..s.hi : s \in column}
Pieces(c) == {Snapped(shape[c]) : shape \in {t \in done : c \in DOMAIN t /\ Inside(t[c])}}
ColumnsAreUnions == \A c \in Cells : Solid(columns[c]) = Solid(Pieces(c))
=============================================================================
