---------------------------- MODULE FieldProofs ----------------------------
(***************************************************************************)
(* Theorems about Heightfield and FieldBuild, for every grid, scene and     *)
(* order of calls: spans stay apart and lose no ground, and the connections *)
(* between compact spans lead back.                                         *)
(***************************************************************************)
EXTENDS FieldBuild, Induction, FiniteSetTheorems

\* A span is a record with its lower end below its upper end.
Proper(s) ==
    /\ s = [lo |-> s.lo, hi |-> s.hi, area |-> s.area]
    /\ s.lo \in Int /\ s.hi \in Int /\ s.lo <= s.hi

Orderly(column) == Apart(column) /\ \A s \in column : Proper(s)

----------------------------------------------------------------------------
(* addSpan *)

\* A piece of a triangle gives a proper span (rasterizeTri).
LEMMA SnappedProper ==
    ASSUME NEW r, r.bottom \in Int, r.top \in Int
    PROVE  Proper(Snapped(r))
<1> USE GridAssumption
<1>1. By \in Int
  BY DEF By
<1>2. ASSUME NEW v \in Int, NEW low \in Int, NEW high \in Int PROVE Clamp(v, low, high) \in Int
  BY <1>2 DEF Clamp
<1>3. ASSUME NEW v \in Int PROVE Floor(v) \in Int /\ Ceil(v) \in Int
  BY <1>3 DEF Floor, Ceil
<1>4. Clamp(r.bottom, 0, By) \in Int /\ Clamp(r.top, 0, By) \in Int
  BY <1>1 DEF Clamp
<1> DEFINE floor == Floor(Clamp(r.bottom, 0, By))
           ceil == Ceil(Clamp(r.top, 0, By))
           lo == Clamp(floor, 0, MaxHeight)
           hi == Clamp(ceil, lo + 1, MaxHeight)
<1>5. floor \in Int /\ ceil \in Int
  BY <1>3, <1>4
<1> HIDE DEF floor, ceil
<1>6. lo \in Int /\ hi \in Int /\ lo <= hi
  BY <1>5 DEF Clamp
<1>7. Snapped(r) = [lo |-> lo, hi |-> hi, area |-> r.area]
  BY DEF Snapped, floor, ceil
<1> HIDE DEF lo, hi
<1> QED
  BY <1>6, <1>7 DEF Proper

\* What the merged span spans: its lower end is that of the one touched span
\* that begins below, if there is one, and likewise above.
LEMMA MergedReach ==
    ASSUME NEW column, Orderly(column), NEW new, Proper(new)
    PROVE  /\ Proper(Merged(column, new))
           /\ \A s \in column : Touches(s, new) => /\ Merged(column, new).lo <= s.lo
                                                   /\ s.hi <= Merged(column, new).hi
           /\ Merged(column, new).lo <= new.lo /\ new.hi <= Merged(column, new).hi
           /\ \/ Merged(column, new).lo = new.lo
              \/ \E s \in column : Touches(s, new) /\ Merged(column, new).lo = s.lo
           /\ \/ Merged(column, new).hi = new.hi
              \/ \E s \in column : Touches(s, new) /\ Merged(column, new).hi = s.hi
<1> DEFINE touched == {s \in column : Touches(s, new)}
           below == {s \in touched : s.lo < new.lo}
           above == {s \in touched : s.hi > new.hi}
           lo == IF below = {} THEN new.lo ELSE (CHOOSE s \in below : TRUE).lo
           hi == IF above = {} THEN new.hi ELSE (CHOOSE s \in above : TRUE).hi
<1>1. \E area : Merged(column, new) = [lo |-> lo, hi |-> hi, area |-> area]
  BY DEF Merged
<1>2. \A s, t \in below : s = t
  BY DEF Touches, Orderly, Apart, Proper
<1>3. \A s, t \in above : s = t
  BY DEF Touches, Orderly, Apart, Proper
<1>4. below # {} => \E s \in below : lo = s.lo
  OBVIOUS
<1>5. above # {} => \E s \in above : hi = s.hi
  OBVIOUS
<1>6. below = {} => lo = new.lo
  OBVIOUS
<1>7. above = {} => hi = new.hi
  OBVIOUS
<1> HIDE DEF lo, hi
<1>8. lo \in Int /\ lo <= new.lo
  BY <1>4, <1>6 DEF Orderly, Proper
<1>9. hi \in Int /\ new.hi <= hi
  BY <1>5, <1>7 DEF Orderly, Proper
<1>10. \A s \in touched : lo <= s.lo
  BY <1>2, <1>4, <1>6, <1>8 DEF Orderly, Proper
<1>11. \A s \in touched : s.hi <= hi
  BY <1>3, <1>5, <1>7, <1>9 DEF Orderly, Proper
<1>12. lo = new.lo \/ \E s \in touched : lo = s.lo
  BY <1>4, <1>6
<1>13. hi = new.hi \/ \E s \in touched : hi = s.hi
  BY <1>5, <1>7
<1>14. PICK area : Merged(column, new) = [lo |-> lo, hi |-> hi, area |-> area]
  BY <1>1
<1>15. Merged(column, new).lo = lo /\ Merged(column, new).hi = hi
  BY <1>14
<1>16. Proper(Merged(column, new))
  BY <1>8, <1>9, <1>14 DEF Proper
<1> QED
  BY <1>8, <1>9, <1>10, <1>11, <1>12, <1>13, <1>15, <1>16

\* addSpan keeps the spans of a column apart.
LEMMA AddSpanApart ==
    ASSUME NEW column, Orderly(column), NEW new, Proper(new)
    PROVE  Orderly(AddSpan(column, new))
<1> DEFINE m == Merged(column, new)
<1>1. ASSUME NEW s \in column, ~Touches(s, new) PROVE s.hi < m.lo \/ m.hi < s.lo
  <2> USE MergedReach DEF Orderly, Proper
  <2>1. CASE s.hi < new.lo
    BY <1>1, <2>1 DEF Touches, Apart
  <2>2. CASE s.lo > new.hi
    BY <1>1, <2>2 DEF Touches, Apart
  <2> QED
    BY <1>1, <2>1, <2>2 DEF Touches
<1> HIDE DEF m
<1>2. AddSpan(column, new) = {s \in column : ~Touches(s, new)} \cup {m}
  BY DEF AddSpan, m
<1>3. Proper(m)
  BY MergedReach DEF m
<1> QED
  BY <1>1, <1>2, <1>3 DEF Orderly, Apart

\* What is solid afterwards is what was solid before, and the new span.
LEMMA AddSpanSolid ==
    ASSUME NEW column, Orderly(column), NEW new, Proper(new)
    PROVE  Solid(AddSpan(column, new)) = Solid(column) \cup (new.lo..new.hi)
<1> DEFINE m == Merged(column, new)
<1>1. ASSUME NEW v \in m.lo..m.hi, v \notin new.lo..new.hi
      PROVE  \E s \in column : v \in s.lo..s.hi
  <2> USE MergedReach DEF Orderly, Proper, Touches
  <2>1. CASE v < new.lo
    BY <1>1, <2>1
  <2>2. CASE v > new.hi
    BY <1>1, <2>2
  <2> QED
    BY <1>1, <2>1, <2>2
<1>2. \A s \in column : Touches(s, new) => s.lo..s.hi \subseteq m.lo..m.hi
  BY MergedReach DEF Orderly, Proper
<1>3. new.lo..new.hi \subseteq m.lo..m.hi
  BY MergedReach DEF Proper
<1> HIDE DEF m
<1>4. AddSpan(column, new) = {s \in column : ~Touches(s, new)} \cup {m}
  BY DEF AddSpan, m
<1>5. ASSUME NEW v PROVE (\E s \in AddSpan(column, new) : v \in s.lo..s.hi)
                         <=> (\E s \in column : v \in s.lo..s.hi) \/ v \in new.lo..new.hi
  BY <1>1, <1>2, <1>3, <1>4
<1> QED
  BY <1>5 DEF Solid

----------------------------------------------------------------------------
(* The filters *)

\* A column whose spans get other areas stays apart and solid where it was.
LEMMA NewAreas ==
    ASSUME NEW column, Orderly(column), NEW f,
           \A s \in column : Proper(f[s]) /\ f[s].lo = s.lo /\ f[s].hi = s.hi
    PROVE  /\ Orderly({f[s] : s \in column})
           /\ Solid({f[s] : s \in column}) = Solid(column)
<1>1. Orderly({f[s] : s \in column})
  BY DEF Orderly, Apart
<1>2. Solid({f[s] : s \in column}) = Solid(column)
  BY DEF Solid
<1> QED
  BY <1>1, <1>2

\* A span with another area is the same span otherwise.
LEMMA NewArea ==
    ASSUME NEW s, Proper(s), NEW a
    PROVE  /\ Proper([s EXCEPT !.area = a])
           /\ [s EXCEPT !.area = a].lo = s.lo /\ [s EXCEPT !.area = a].hi = s.hi
<1>1. [s EXCEPT !.area = a] = [lo |-> s.lo, hi |-> s.hi, area |-> a]
  BY DEF Proper
<1> QED
  BY <1>1 DEF Proper

\* FilterLowHangingWalkableObstacles changes areas only.
LEMMA LowHangingKeeps ==
    ASSUME NEW column, Orderly(column)
    PROVE  Orderly(LowHanging(column)) /\ Solid(LowHanging(column)) = Solid(column)
<1> DEFINE Lowered(s) ==
             IF s.area = NullArea /\ \E p \in column : Supports(column, s, p)
             THEN [s EXCEPT !.area = (CHOOSE p \in column : Supports(column, s, p)).area] ELSE s
           f == [s \in column |-> Lowered(s)]
<1>1. \A s \in column : Proper(Lowered(s)) /\ Lowered(s).lo = s.lo /\ Lowered(s).hi = s.hi
  BY NewArea DEF Orderly
<1>2. LowHanging(column) = {Lowered(s) : s \in column}
  BY DEF LowHanging
<1> HIDE DEF Lowered
<1>3. {Lowered(s) : s \in column} = {f[s] : s \in column}
  OBVIOUS
<1>4. \A s \in column : Proper(f[s]) /\ f[s].lo = s.lo /\ f[s].hi = s.hi
  BY <1>1
<1> HIDE DEF f
<1>5. Orderly({f[s] : s \in column}) /\ Solid({f[s] : s \in column}) = Solid(column)
  BY <1>4, NewAreas
<1> QED
  BY <1>2, <1>3, <1>5

\* FilterWalkableLowHeightSpans changes areas only.
LEMMA LowCeilingKeeps ==
    ASSUME NEW column, Orderly(column)
    PROVE  Orderly(LowCeiling(column)) /\ Solid(LowCeiling(column)) = Solid(column)
<1> DEFINE Shut(s) == IF Ceiling(column, s) - s.hi < WalkableHeight THEN [s EXCEPT !.area = NullArea]
                      ELSE s
           f == [s \in column |-> Shut(s)]
<1>1. \A s \in column : Proper(Shut(s)) /\ Shut(s).lo = s.lo /\ Shut(s).hi = s.hi
  BY NewArea DEF Orderly
<1>2. LowCeiling(column) = {Shut(s) : s \in column}
  BY DEF LowCeiling
<1> HIDE DEF Shut
<1>3. {Shut(s) : s \in column} = {f[s] : s \in column}
  OBVIOUS
<1>4. \A s \in column : Proper(f[s]) /\ f[s].lo = s.lo /\ f[s].hi = s.hi
  BY <1>1
<1> HIDE DEF f
<1>5. Orderly({f[s] : s \in column}) /\ Solid({f[s] : s \in column}) = Solid(column)
  BY <1>4, NewAreas
<1> QED
  BY <1>2, <1>3, <1>5

\* FilterLedgeSpans changes areas only.
LEMMA LedgesKeep ==
    ASSUME NEW field, NEW c \in Cells, Orderly(field[c])
    PROVE  Orderly(Ledges(field)[c]) /\ Solid(Ledges(field)[c]) = Solid(field[c])
<1> DEFINE Judged(s) == IF s.area # NullArea /\ IsLedge(field, c, s) THEN [s EXCEPT !.area = NullArea]
                        ELSE s
           f == [s \in field[c] |-> Judged(s)]
<1>1. \A s \in field[c] : Proper(Judged(s)) /\ Judged(s).lo = s.lo /\ Judged(s).hi = s.hi
  BY NewArea DEF Orderly
<1>2. Ledges(field)[c] = {Judged(s) : s \in field[c]}
  BY DEF Ledges
<1> HIDE DEF Judged
<1>3. {Judged(s) : s \in field[c]} = {f[s] : s \in field[c]}
  OBVIOUS
<1>4. \A s \in field[c] : Proper(f[s]) /\ f[s].lo = s.lo /\ f[s].hi = s.hi
  BY <1>1
<1> HIDE DEF f
<1>5. Orderly({f[s] : s \in field[c]}) /\ Solid({f[s] : s \in field[c]}) = Solid(field[c])
  BY <1>4, NewAreas
<1> QED
  BY <1>2, <1>3, <1>5

----------------------------------------------------------------------------
(* The two theorems *)

\* Every shape that is still to come, or has come, is one of the scene.
KnownShapes == \A shape \in todo \cup done : \A c \in DOMAIN shape :
                    shape[c].bottom \in Int /\ shape[c].top \in Int
Pile == /\ KnownShapes
        /\ \A c \in Cells : Orderly(columns[c])
        /\ ColumnsAreUnions

\* What a shape leaves in a cell joins the pieces of that cell.
LEMMA NewPiece ==
    ASSUME NEW shape \in todo, Rasterize(shape), NEW c \in Cells
    PROVE  Pieces(c)' = IF c \in DOMAIN shape /\ Inside(shape[c])
                        THEN Pieces(c) \cup {Snapped(shape[c])} ELSE Pieces(c)
  BY DEF Pieces, Rasterize

\* rasterizeTri keeps the columns apart and makes them the union of the pieces.
LEMMA RasterizeKeeps ==
    ASSUME Pile, NEW shape \in todo, Rasterize(shape)
    PROVE  Pile'
<1>1. KnownShapes'
  BY DEF Pile, KnownShapes, Rasterize
<1>2. ASSUME NEW c \in Cells
      PROVE  Orderly(columns'[c]) /\ Solid(columns'[c]) = Solid(Pieces(c)')
  <2>1. Orderly(columns[c]) /\ Solid(columns[c]) = Solid(Pieces(c))
    BY DEF Pile, ColumnsAreUnions
  <2>2. CASE c \in DOMAIN shape /\ Inside(shape[c])
    <3> DEFINE new == Snapped(shape[c])
    <3>1. Proper(new)
      BY <2>2, SnappedProper DEF Pile, KnownShapes
    <3>2. columns'[c] = AddSpan(columns[c], new)
      BY <2>2 DEF Rasterize
    <3>3. Pieces(c)' = Pieces(c) \cup {new}
      BY <2>2, NewPiece
    <3> HIDE DEF new
    <3>4. Orderly(AddSpan(columns[c], new))
      BY <2>1, <3>1, AddSpanApart
    <3>5. Solid(AddSpan(columns[c], new)) = Solid(columns[c]) \cup (new.lo..new.hi)
      BY <2>1, <3>1, AddSpanSolid
    <3>6. Solid(Pieces(c) \cup {new}) = Solid(Pieces(c)) \cup (new.lo..new.hi)
      BY DEF Solid
    <3> QED
      BY <2>1, <3>2, <3>3, <3>4, <3>5, <3>6
  <2>3. CASE ~(c \in DOMAIN shape /\ Inside(shape[c]))
    <3>1. columns'[c] = columns[c]
      BY <2>3 DEF Rasterize
    <3>2. Pieces(c)' = Pieces(c)
      BY <2>3, NewPiece
    <3> QED
      BY <2>1, <3>1, <3>2
  <2> QED
    BY <2>2, <2>3
<1> QED
  BY <1>1, <1>2 DEF Pile, ColumnsAreUnions

\* The filters leave the spans where they are.
LEMMA FilterKeeps ==
    ASSUME Pile, NEW steps \in BOOLEAN, NEW ledges \in BOOLEAN, NEW clearance \in BOOLEAN,
           FilterSpans(steps, ledges, clearance)
    PROVE  Pile'
<1> DEFINE low == [c \in Cells |-> IF steps THEN LowHanging(columns[c]) ELSE columns[c]]
           level == IF ledges THEN Ledges(low) ELSE low
<1>1. KnownShapes' /\ \A c \in Cells : Pieces(c)' = Pieces(c)
  BY DEF Pile, KnownShapes, FilterSpans, Pieces
<1>2. ASSUME NEW c \in Cells PROVE Orderly(low[c]) /\ Solid(low[c]) = Solid(columns[c])
  BY LowHangingKeeps DEF Pile
<1>3. ASSUME NEW c \in Cells PROVE Orderly(level[c]) /\ Solid(level[c]) = Solid(columns[c])
  <2> HIDE DEF low
  <2>1. Orderly(Ledges(low)[c]) /\ Solid(Ledges(low)[c]) = Solid(low[c])
    BY <1>2, LedgesKeep
  <2> QED
    BY <1>2, <2>1
<1>4. \A c \in Cells : columns'[c] = IF clearance THEN LowCeiling(level[c]) ELSE level[c]
  BY DEF FilterSpans
<1> HIDE DEF level
<1>5. ASSUME NEW c \in Cells PROVE Orderly(columns'[c]) /\ Solid(columns'[c]) = Solid(columns[c])
  <2>1. /\ Orderly(LowCeiling(level[c]))
        /\ Solid(LowCeiling(level[c])) = Solid(level[c])
    BY <1>3, LowCeilingKeeps
  <2> QED
    BY <1>3, <1>4, <2>1
<1> QED
  BY <1>1, <1>5 DEF Pile, ColumnsAreUnions

\* Nothing is lost where nothing has been added.
LEMMA EmptyPile == Empty => Pile
<1> SUFFICES ASSUME Empty PROVE Pile
  OBVIOUS
<1>1. KnownShapes
  BY GridAssumption DEF Empty, KnownShapes
<1>2. \A c \in Cells : Orderly(columns[c])
  BY DEF Empty, Orderly, Apart
<1>3. \A c \in Cells : Solid(columns[c]) = Solid(Pieces(c))
  BY DEF Empty, Solid, Pieces
<1> QED
  BY <1>1, <1>2, <1>3 DEF Pile, ColumnsAreUnions

\* All that is true of a heightfield at any time.
LEMMA PileAlways == FieldSpec => []Pile
<1>1. Empty => Pile
  BY EmptyPile
<1>2. Pile /\ [FieldNext]_<<columns, todo, done>> => Pile'
  <2> SUFFICES ASSUME Pile, [FieldNext]_<<columns, todo, done>> PROVE Pile'
    OBVIOUS
  <2>1. CASE \E shape \in todo : Rasterize(shape)
    BY <2>1, RasterizeKeeps
  <2>2. CASE \E steps, ledges, clearance \in BOOLEAN : FilterSpans(steps, ledges, clearance)
    BY <2>2, FilterKeeps
  <2>3. CASE UNCHANGED <<columns, todo, done>>
    BY <2>3 DEF Pile, KnownShapes, ColumnsAreUnions, Pieces
  <2> QED
    BY <2>1, <2>2, <2>3 DEF FieldNext
<1> QED
  BY <1>1, <1>2, PTL DEF FieldSpec

\* Whatever is rasterized in whatever order, and filtered, the spans of a column
\* never overlap or touch (addSpan, and the filters of filter.go).
THEOREM SpansSeparated == FieldSpec => []Separated
<1>1. Pile => Separated
  BY DEF Pile, Orderly, Separated
<1> QED
  BY <1>1, PileAlways, PTL

\* A column is solid exactly where some piece of a triangle was rasterized: no
\* ground is lost or doubled when addSpan merges spans.
THEOREM NothingLostInColumns == FieldSpec => []ColumnsAreUnions
<1>1. Pile => ColumnsAreUnions
  BY DEF Pile
<1> QED
  BY <1>1, PileAlways, PTL

----------------------------------------------------------------------------
(* Compact fields *)

OpenSpan == [x : Int, z : Int, y : Int, h : Int]

\* Two spans of one column are never both within reach of a third one, as long
\* as an agent cannot climb as high as it is.
LEMMA OneCompatible ==
    ASSUME WalkableClimb < WalkableHeight,
           NEW s \in OpenSpan, NEW t \in OpenSpan, NEW u \in OpenSpan,
           s.y + s.h <= t.y, Compatible(s, u), Compatible(t, u)
    PROVE  FALSE
<1> USE GridAssumption DEF OpenSpan
<1>1. Higher(s.y, u.y) + WalkableHeight <= s.y + s.h
  BY DEF Compatible, Lower, Higher
<1>2. u.y + WalkableHeight <= s.y + s.h
  BY <1>1 DEF Higher
<1>3. t.y <= u.y + WalkableClimb
  BY DEF Compatible
<1> QED
  BY <1>2, <1>3

\* A step up is a step down from the other side.
LEMMA CompatibleBothWays ==
    ASSUME NEW s \in OpenSpan, NEW t \in OpenSpan, Compatible(s, t)
    PROVE  Compatible(t, s)
  BY GridAssumption DEF Compatible, Lower, Higher, OpenSpan

\* Cells beside each other are so in opposite directions.
LEMMA BesideBothWays ==
    ASSUME NEW s \in OpenSpan, NEW t \in OpenSpan, NEW d \in Dirs, Beside(s, t, d)
    PROVE  Opposite(d) \in Dirs /\ Beside(t, s, Opposite(d))
<1>1. d = 0 \/ d = 1 \/ d = 2 \/ d = 3
  BY DEF Dirs
<1>2. /\ Opposite(0) = 2 /\ Opposite(1) = 3 /\ Opposite(2) = 0 /\ Opposite(3) = 1
  BY DEF Opposite
<1>3. /\ OffsetX(0) = -1 /\ OffsetX(1) = 0 /\ OffsetX(2) = 1 /\ OffsetX(3) = 0
      /\ OffsetZ(0) = 0 /\ OffsetZ(1) = 1 /\ OffsetZ(2) = 0 /\ OffsetZ(3) = -1
  BY DEF OffsetX, OffsetZ
<1> QED
  BY <1>1, <1>2, <1>3 DEF Beside, OpenSpan, Dirs

\* BuildCompactHeightfield: when no column has more layers than a connection can
\* name, and an agent cannot climb as high as it is, the connection from one
\* span to another has one that leads back.
THEOREM ConnectionsMutual ==
    ASSUME WalkableClimb < WalkableHeight,
           NEW chf \in Seq(OpenSpan), Stacked(chf)
    PROVE  Mutual(chf, Connections(chf))
<1> DEFINE links == Connections(chf)
<1>1. SUFFICES ASSUME \A j \in DOMAIN chf : Layer(chf, j) <= MaxLayers,
                      NEW i \in DOMAIN chf, NEW d \in Dirs, links[i][d] # None
               PROVE  links[links[i][d]][Opposite(d)] = i
  BY DEF Mutual
<1>2. \A n \in DOMAIN chf : chf[n] \in OpenSpan
  OBVIOUS
<1>3. DOMAIN chf \subseteq Int
  OBVIOUS
<1>4. ASSUME NEW n \in DOMAIN chf, NEW e \in Dirs,
             NEW j \in Candidates(chf, n, e), NEW k \in Candidates(chf, n, e), j < k
      PROVE  FALSE
  <2>1. /\ j \in DOMAIN chf /\ k \in DOMAIN chf
        /\ Beside(chf[n], chf[j], e) /\ Beside(chf[n], chf[k], e)
        /\ Compatible(chf[n], chf[j]) /\ Compatible(chf[n], chf[k])
    BY DEF Candidates
  <2>2. chf[j].x = chf[k].x /\ chf[j].z = chf[k].z
    BY <2>1 DEF Beside
  <2>3. chf[j].y + chf[j].h <= chf[k].y
    BY <1>4, <2>1, <2>2 DEF Stacked
  <2>4. Compatible(chf[j], chf[n]) /\ Compatible(chf[k], chf[n])
    BY <1>2, <2>1, CompatibleBothWays
  <2> QED
    BY <1>2, <2>1, <2>3, <2>4, OneCompatible
<1>5. ASSUME NEW n \in DOMAIN chf, NEW e \in Dirs, NEW j \in Candidates(chf, n, e)
      PROVE  links[n][e] = j
  <2>1. \A k \in Candidates(chf, n, e) : k = j
    <3> SUFFICES ASSUME NEW k \in Candidates(chf, n, e), k # j PROVE FALSE
      OBVIOUS
    <3>1. j \in Int /\ k \in Int
      BY <1>3 DEF Candidates
    <3> QED
      BY <1>4, <3>1
  <2>2. Candidates(chf, n, e) = {j}
    BY <2>1
  <2>3. j \in Int
    BY <1>3 DEF Candidates
  <2>4. Min({j}) = j
    BY <2>3 DEF Min
  <2>5. links[n][e] = Min({j})
    BY <2>2 DEF Connections
  <2> QED
    BY <2>4, <2>5
<1> DEFINE j == links[i][d]
<1>6. j \in Candidates(chf, i, d)
  <2>1. Candidates(chf, i, d) # {}
    BY <1>1 DEF Connections
  <2>2. PICK k \in Candidates(chf, i, d) : TRUE
    BY <2>1
  <2> QED
    BY <1>5, <2>2
<1> HIDE DEF j
<1>7. i \in Candidates(chf, j, Opposite(d)) /\ j \in DOMAIN chf /\ Opposite(d) \in Dirs
  <2>1. j \in DOMAIN chf /\ Beside(chf[i], chf[j], d) /\ Compatible(chf[i], chf[j])
    BY <1>6 DEF Candidates
  <2>2. Opposite(d) \in Dirs /\ Beside(chf[j], chf[i], Opposite(d))
    BY <1>2, <2>1, BesideBothWays
  <2>3. Compatible(chf[j], chf[i])
    BY <1>2, <2>1, CompatibleBothWays
  <2> QED
    BY <1>1, <2>1, <2>2, <2>3 DEF Candidates
<1> QED
  BY <1>5, <1>7 DEF j

----------------------------------------------------------------------------
(* Room above a span *)

\* The ceiling over a span is a height, and no span above it begins below.
LEMMA CeilingBelow ==
    ASSUME NEW column, Orderly(column), NEW s \in column
    PROVE  /\ Ceiling(column, s) \in Int
           /\ \A t \in column : t.lo > s.hi => Ceiling(column, s) <= t.lo
<1> DEFINE S == {t.lo : t \in Above(column, s)} \cup {HighestCeiling}
           b == Lower(s.hi, HighestCeiling)
<1>1. s.hi \in Int /\ HighestCeiling \in Int
  BY FieldAssumption DEF Orderly, Proper
<1>2. ASSUME NEW x \in S PROVE x \in Int /\ b <= x
  <2>1. CASE x = HighestCeiling
    BY <1>1, <2>1 DEF Lower
  <2>2. CASE \E t \in Above(column, s) : x = t.lo
    <3>1. PICK t \in column : x = t.lo /\ t.lo > s.hi
      BY <2>2 DEF Above
    <3>2. t.lo \in Int
      BY <3>1 DEF Orderly, Proper
    <3> QED
      BY <1>1, <3>1, <3>2 DEF Lower
  <2> QED
    BY <2>1, <2>2
<1>3. b \in Int /\ S # {}
  BY <1>1 DEF Lower
<1>4. Ceiling(column, s) = Min(S)
  BY DEF Ceiling
<1>5. \A t \in column : t.lo > s.hi => t.lo \in S
  BY DEF Above
<1> HIDE DEF S, b
<1>6. Min(S) \in S /\ \A y \in S : Min(S) <= y
  BY <1>2, <1>3, LowestIsMin
<1> QED
  BY <1>2, <1>4, <1>5, <1>6

\* The clearance of a span, as BuildCompactHeightfield takes it.
Clearance(column, s) == Clamp(Ceiling(column, s) - s.hi, 0, MaxClearance)

\* A span has no more clearance than there is to the ground of any above it.
LEMMA ClearanceFits ==
    ASSUME NEW column, Orderly(column), NEW s \in column, NEW t \in column
    PROVE  /\ s.hi \in Int /\ Clearance(column, s) \in Int
           /\ s.lo < t.lo => s.hi + Clearance(column, s) <= t.hi
<1>1. /\ s.lo \in Int /\ s.hi \in Int /\ s.lo <= s.hi
      /\ t.lo \in Int /\ t.hi \in Int /\ t.lo <= t.hi
  BY DEF Orderly, Proper
<1>2. PICK ceiling \in Int : ceiling = Ceiling(column, s)
  BY CeilingBelow
<1>3. MaxClearance \in Nat
  BY FieldAssumption
<1>4. Clearance(column, s) = Clamp(ceiling - s.hi, 0, MaxClearance)
  BY <1>2 DEF Clearance
<1>5. Clearance(column, s) \in Int
  BY <1>1, <1>3, <1>4 DEF Clamp
<1>6. ASSUME s.lo < t.lo PROVE s.hi + Clearance(column, s) <= t.hi
  <2>1. s.hi < t.lo
    BY <1>1, <1>6 DEF Orderly, Apart
  <2>2. ceiling <= t.lo
    BY <1>2, <2>1, CeilingBelow
  <2> QED
    BY <1>1, <1>3, <1>4, <2>1, <2>2 DEF Clamp
<1> QED
  BY <1>1, <1>5, <1>6

----------------------------------------------------------------------------
(* The order of the spans *)

\* The walkable spans with their cells are finitely many: a column has no two
\* that begin at one height, and the heights are those of pieces of triangles.
LEMMA PlacesFinite ==
    ASSUME Pile
    PROVE  IsFiniteSet(Walkable(columns))
<1> DEFINE heights == 0..(MaxHeight + 1)
           f == [p \in Walkable(columns) |-> <<p.cell, p.floor.lo>>]
<1>1. ASSUME NEW c \in Cells, NEW s \in columns[c] PROVE s.lo \in heights
  <2>1. s.lo \in Int /\ s.lo \in s.lo..s.hi
    BY DEF Pile, Orderly, Proper
  <2>2. s.lo \in Solid(Pieces(c))
    BY <2>1 DEF Pile, ColumnsAreUnions, Solid
  <2>3. PICK shape \in done : /\ c \in DOMAIN shape
                              /\ s.lo \in Snapped(shape[c]).lo..Snapped(shape[c]).hi
    BY <2>2 DEF Solid, Pieces
  <2>4. shape[c].bottom \in Int /\ shape[c].top \in Int
    BY <2>3 DEF Pile, KnownShapes
  <2> DEFINE r == shape[c]
             floor == Floor(Clamp(r.bottom, 0, By))
             ceil == Ceil(Clamp(r.top, 0, By))
             lo == Clamp(floor, 0, MaxHeight)
  <2>5. floor \in Int /\ ceil \in Int
    <3>1. By \in Int
      BY GridAssumption DEF By
    <3>2. Clamp(r.bottom, 0, By) \in Int /\ Clamp(r.top, 0, By) \in Int
      BY <2>4, <3>1 DEF Clamp
    <3>3. \A v \in Int : Floor(v) \in Int /\ Ceil(v) \in Int
      BY GridAssumption DEF Floor, Ceil
    <3> QED
      BY <3>2, <3>3
  <2>6. Snapped(r).lo = lo /\ Snapped(r).hi = Clamp(ceil, lo + 1, MaxHeight)
    BY DEF Snapped
  <2> HIDE DEF floor, ceil
  <2>7. lo \in 0..MaxHeight
    BY <2>5, GridAssumption DEF Clamp
  <2>8. Snapped(r).lo \in 0..MaxHeight /\ Snapped(r).hi \in Int /\ Snapped(r).hi <= MaxHeight + 1
    <3> HIDE DEF lo
    <3> QED
      BY <2>5, <2>6, <2>7, GridAssumption DEF Clamp
  <2> QED
    BY <2>1, <2>3, <2>8, GridAssumption
<1>2. ASSUME NEW p \in Walkable(columns)
      PROVE  /\ p = [cell |-> p.cell, floor |-> p.floor]
             /\ p.cell \in Cells /\ p.floor \in columns[p.cell]
  BY DEF Walkable
<1>3. f \in Injection(Walkable(columns), Cells \X heights)
  <2>1. \A p \in Walkable(columns) : <<p.cell, p.floor.lo>> \in Cells \X heights
    BY <1>1, <1>2
  <2>2. ASSUME NEW p \in Walkable(columns), NEW q \in Walkable(columns), f[p] = f[q]
        PROVE  p = q
    <3>1. p.cell = q.cell /\ p.floor.lo = q.floor.lo
      BY <2>2
    <3>2. p.floor = q.floor
      <4>1. Orderly(columns[p.cell]) /\ p.floor \in columns[p.cell] /\ q.floor \in columns[p.cell]
        BY <1>2, <3>1 DEF Pile
      <4> QED
        BY <3>1, <4>1 DEF Orderly, Apart, Proper
    <3> QED
      BY <1>2, <3>1, <3>2
  <2> QED
    BY <2>1, <2>2 DEF Injection, IsInjective
<1>4. IsFiniteSet(Cells \X heights)
  <2>1. 0 \in Int /\ Width - 1 \in Int /\ Height - 1 \in Int /\ MaxHeight + 1 \in Int
    BY GridAssumption
  <2>2. IsFiniteSet(0..(Width - 1)) /\ IsFiniteSet(0..(Height - 1)) /\ IsFiniteSet(heights)
    BY <2>1, FS_Interval
  <2>3. IsFiniteSet(Cells)
    BY <2>2, FS_Product DEF Cells
  <2> QED
    BY <2>2, <2>3, FS_Product
<1> HIDE DEF f, heights
<1> QED
  BY <1>3, <1>4, FS_Injection

\* Earlier orders the walkable spans: by row, by column, and upwards.
LEMMA EarlierOrders ==
    ASSUME Pile, NEW p \in Walkable(columns), NEW q \in Walkable(columns)
    PROVE  /\ ~Earlier(p, p)
           /\ p # q => Earlier(p, q) \/ Earlier(q, p)
           /\ \A r \in Walkable(columns) : Earlier(p, q) /\ Earlier(q, r) => Earlier(p, r)
<1>1. ASSUME NEW r \in Walkable(columns)
      PROVE  /\ r = [cell |-> r.cell, floor |-> r.floor] /\ r.cell \in Cells
             /\ r.floor \in columns[r.cell] /\ Proper(r.floor)
             /\ r.cell = <<r.cell[1], r.cell[2]>> /\ r.cell[1] \in Int /\ r.cell[2] \in Int
             /\ r.floor.lo \in Int
  <2>1. /\ r = [cell |-> r.cell, floor |-> r.floor] /\ r.cell \in Cells
        /\ r.floor \in columns[r.cell]
    BY DEF Walkable
  <2>2. Proper(r.floor)
    BY <2>1 DEF Pile, Orderly
  <2> QED
    BY <2>1, <2>2 DEF Cells, Proper
<1>2. ASSUME p # q, p.cell = q.cell PROVE p.floor.lo # q.floor.lo
  <2>1. p.floor # q.floor
    BY <1>1, <1>2
  <2>2. Orderly(columns[p.cell]) /\ p.floor \in columns[p.cell] /\ q.floor \in columns[p.cell]
    BY <1>1, <1>2 DEF Pile
  <2> QED
    BY <2>1, <2>2 DEF Orderly, Apart, Proper
<1>3. ~Earlier(p, p)
  BY <1>1 DEF Earlier
<1>4. ASSUME p # q PROVE Earlier(p, q) \/ Earlier(q, p)
  <2>1. CASE p.cell = q.cell
    BY <1>1, <1>2, <1>4, <2>1 DEF Earlier
  <2>2. CASE p.cell # q.cell
    <3>1. p.cell[1] # q.cell[1] \/ p.cell[2] # q.cell[2]
      BY <1>1, <2>2
    <3>2. \A x, y \in Int : x # y => x < y \/ y < x
      OBVIOUS
    <3> QED
      BY <1>1, <3>1, <3>2 DEF Earlier
  <2> QED
    BY <2>1, <2>2
<1>5. ASSUME NEW r \in Walkable(columns), Earlier(p, q), Earlier(q, r) PROVE Earlier(p, r)
  BY <1>1, <1>5 DEF Earlier
<1> QED
  BY <1>3, <1>4, <1>5

\* The array holds the walkable spans in that order.
LEMMA NumberedInOrder ==
    ASSUME Pile
    PROVE  /\ Cardinality(Walkable(columns)) \in Nat
           /\ DOMAIN Numbered(columns) = 1..Cardinality(Walkable(columns))
           /\ \A i \in DOMAIN Numbered(columns) : Numbered(columns)[i] \in Walkable(columns)
           /\ \A i, j \in DOMAIN Numbered(columns) :
                 i < j => Earlier(Numbered(columns)[i], Numbered(columns)[j])
<1> DEFINE places == Walkable(columns)
           n == Cardinality(places)
           Before(p) == {q \in places : Earlier(q, p)}
           rank == [p \in places |-> Cardinality(Before(p))]
           numbered == Numbered(columns)
<1>1. IsFiniteSet(places) /\ n \in Nat
  BY PlacesFinite, FS_CardinalityType
<1>2. ASSUME NEW p \in places PROVE IsFiniteSet(Before(p)) /\ rank[p] \in 0..(n - 1)
  <2>1. Before(p) \in SUBSET places /\ p \notin Before(p)
    BY <1>2, EarlierOrders
  <2>2. IsFiniteSet(Before(p)) /\ Cardinality(Before(p)) <= n /\ Cardinality(Before(p)) # n
    <3> HIDE DEF Before, places
    <3>1. n = Cardinality(Before(p)) => places = Before(p)
      BY <1>1, <2>1, FS_Subset
    <3> QED
      BY <1>1, <1>2, <2>1, <3>1, FS_Subset
  <2>3. Cardinality(Before(p)) \in Nat
    BY <2>2, FS_CardinalityType
  <2>4. rank[p] = Cardinality(Before(p))
    BY <1>2
  <2> HIDE DEF rank, n, Before
  <2> QED
    BY <1>1, <2>2, <2>3, <2>4
<1>3. ASSUME NEW p \in places, NEW q \in places, Earlier(p, q) PROVE rank[p] < rank[q]
  <2>1. Before(p) \in SUBSET Before(q) /\ p \in Before(q) /\ p \notin Before(p)
    BY <1>3, EarlierOrders
  <2>2. IsFiniteSet(Before(q)) /\ rank[p] = Cardinality(Before(p)) /\ rank[q] = Cardinality(Before(q))
    BY <1>2, <1>3
  <2>3. rank[p] \in Nat /\ rank[q] \in Nat
    <3>1. rank[p] \in 0..(n - 1) /\ rank[q] \in 0..(n - 1)
      BY <1>2, <1>3
    <3> HIDE DEF rank, n
    <3> QED
      BY <1>1, <3>1
  <2> HIDE DEF Before, rank
  <2>4. /\ Cardinality(Before(p)) <= Cardinality(Before(q))
        /\ Cardinality(Before(p)) # Cardinality(Before(q))
    BY <2>1, <2>2, FS_Subset
  <2> QED
    BY <2>2, <2>3, <2>4
<1>4. \A k \in 0..(n - 1) : \E p \in places : rank[p] = k
  <2>1. rank \in Injection(places, 0..(n - 1))
    <3>1. rank \in [places -> 0..(n - 1)]
      <4> HIDE DEF n
      <4> QED
        BY <1>2
    <3>2. ASSUME NEW p \in places, NEW q \in places, rank[p] = rank[q] PROVE p = q
      <4>1. p # q => rank[p] < rank[q] \/ rank[q] < rank[p]
        <5> HIDE DEF rank, places
        <5> QED
          BY <1>3, <3>2, EarlierOrders DEF places
      <4>2. rank[p] \in Int
        BY <1>2
      <4> HIDE DEF rank
      <4> QED
        BY <3>2, <4>1, <4>2
    <3> HIDE DEF rank, places, n
    <3> QED
      BY <3>1, <3>2 DEF Injection, IsInjective
  <2>2. IsFiniteSet(0..(n - 1)) /\ Cardinality(0..(n - 1)) = n
    <3> HIDE DEF n
    <3>1. 0 \in Int /\ n - 1 \in Int
      BY <1>1
    <3> QED
      BY <1>1, <3>1, FS_Interval
  <2> HIDE DEF rank, places
  <2>3. rank \in Surjection(places, 0..(n - 1))
    BY <2>1, <2>2, FS_Injection
  <2> QED
    BY <2>3 DEF Surjection
<1>5. DOMAIN numbered = 1..n
  BY DEF Numbered
<1>6. ASSUME NEW i \in 1..n PROVE numbered[i] \in places /\ rank[numbered[i]] = i - 1
  <2>1. numbered[i] = CHOOSE p \in places : Cardinality({q \in places : Earlier(q, p)}) = i - 1
    BY <1>6 DEF Numbered
  <2>2. i - 1 \in 0..(n - 1)
    <3> HIDE DEF n
    <3> QED
      BY <1>1, <1>6
  <2>3. \E p \in places : rank[p] = i - 1
    <3> HIDE DEF n, places, rank
    <3> QED
      BY <1>4, <2>2
  <2>4. \E p \in places : Cardinality({q \in places : Earlier(q, p)}) = i - 1
    BY <2>3
  <2> QED
    BY <2>1, <2>4
<1>7. ASSUME NEW i \in 1..n, NEW j \in 1..n, i < j PROVE Earlier(numbered[i], numbered[j])
  <2>1. numbered[i] \in places /\ rank[numbered[i]] = i - 1
    BY <1>6
  <2>2. numbered[j] \in places /\ rank[numbered[j]] = j - 1
    BY <1>6
  <2>3. i \in Int /\ j \in Int
    BY <1>1
  <2>4. numbered[i] # numbered[j] /\ ~(rank[numbered[j]] < rank[numbered[i]])
    <3> HIDE DEF rank, numbered, n
    <3> QED
      BY <1>7, <2>1, <2>2, <2>3
  <2>5. ~Earlier(numbered[j], numbered[i])
    <3> HIDE DEF rank, numbered, places
    <3> QED
      BY <1>3, <2>1, <2>2, <2>4
  <2> HIDE DEF rank, numbered
  <2> QED
    BY <2>1, <2>2, <2>4, <2>5, EarlierOrders
<1> HIDE DEF n, places, numbered, rank
<1> QED
  BY <1>1, <1>5, <1>6, <1>7 DEF n, places, numbered

\* The compact spans of a heightfield lie on the grid and above one another,
\* clearance included.
OnGrid(sp) == \A i \in DOMAIN sp : <<sp[i].x, sp[i].z>> \in Cells

LEMMA SpansStacked ==
    ASSUME Pile
    PROVE  /\ CompactSpans(columns) \in Seq(OpenSpan) /\ Stacked(CompactSpans(columns))
           /\ OnGrid(CompactSpans(columns))
<1> DEFINE places == Numbered(columns)
           n == Cardinality(Walkable(columns))
           out == CompactSpans(columns)
<1>1. /\ n \in Nat /\ DOMAIN places = 1..n
      /\ \A i, j \in 1..n : i < j => Earlier(places[i], places[j])
  BY NumberedInOrder
<1>2. ASSUME NEW i \in 1..n
      PROVE  /\ places[i].cell \in Cells /\ places[i].floor \in columns[places[i].cell]
             /\ Orderly(columns[places[i].cell])
  <2>1. places[i] \in Walkable(columns)
    BY NumberedInOrder
  <2> QED
    BY <2>1 DEF Walkable, Pile
<1>3. ASSUME NEW i \in 1..n
      PROVE  out[i] = [x |-> places[i].cell[1], z |-> places[i].cell[2], y |-> places[i].floor.hi,
                       h |-> Clearance(columns[places[i].cell], places[i].floor)]
  BY <1>1, <1>3 DEF CompactSpans, Clearance
<1>4. DOMAIN out = 1..n
  BY <1>1 DEF CompactSpans
<1>5. out = [i \in 1..n |-> out[i]]
  BY <1>1 DEF CompactSpans
<1> HIDE DEF n, places, out
<1>6. ASSUME NEW i \in 1..n PROVE out[i] \in OpenSpan
  <2>1. places[i].cell[1] \in Int /\ places[i].cell[2] \in Int
    BY <1>2 DEF Cells
  <2>2. /\ places[i].floor.hi \in Int
        /\ Clearance(columns[places[i].cell], places[i].floor) \in Int
    BY <1>2, ClearanceFits
  <2>3. PICK x \in Int, z \in Int, y \in Int, h \in Int :
           /\ x = places[i].cell[1] /\ z = places[i].cell[2] /\ y = places[i].floor.hi
           /\ h = Clearance(columns[places[i].cell], places[i].floor)
    BY <2>1, <2>2
  <2>4. out[i] = [x |-> x, z |-> z, y |-> y, h |-> h]
    BY <1>3, <2>3
  <2>5. [x |-> x, z |-> z, y |-> y, h |-> h] \in OpenSpan
    BY DEF OpenSpan
  <2> QED
    BY <2>4, <2>5
<1>7. out \in Seq(OpenSpan)
  BY <1>1, <1>6, <1>5
<1>8. ASSUME NEW k \in 1..n
      PROVE  /\ out[k].x = places[k].cell[1] /\ out[k].z = places[k].cell[2]
             /\ out[k].y = places[k].floor.hi
             /\ out[k].h = Clearance(columns[places[k].cell], places[k].floor)
  <2>1. PICK x, z, y, h :
           /\ x = places[k].cell[1] /\ z = places[k].cell[2] /\ y = places[k].floor.hi
           /\ h = Clearance(columns[places[k].cell], places[k].floor)
    OBVIOUS
  <2>2. out[k] = [x |-> x, z |-> z, y |-> y, h |-> h]
    BY <1>3, <2>1
  <2>3. out[k].x = x /\ out[k].z = z /\ out[k].y = y /\ out[k].h = h
    BY <2>2
  <2> QED
    BY <2>1, <2>3
<1>9. ASSUME NEW i \in 1..n, NEW j \in 1..n, i < j, out[i].x = out[j].x, out[i].z = out[j].z
      PROVE  out[i].y + out[i].h <= out[j].y
  <2>1. places[i].cell = places[j].cell
    <3>1. /\ places[i].cell = <<places[i].cell[1], places[i].cell[2]>>
          /\ places[j].cell = <<places[j].cell[1], places[j].cell[2]>>
      BY <1>2 DEF Cells
    <3>2. /\ places[i].cell[1] = places[j].cell[1]
          /\ places[i].cell[2] = places[j].cell[2]
      BY <1>8, <1>9
    <3> QED
      BY <3>1, <3>2
  <2>2. places[i].floor.lo < places[j].floor.lo
    <3>1. /\ Earlier(places[i], places[j])
          /\ places[i].cell[1] \in Int /\ places[i].cell[2] \in Int
      BY <1>1, <1>2, <1>9 DEF Cells
    <3> QED
      BY <2>1, <3>1 DEF Earlier
  <2>3. /\ places[i].floor \in columns[places[i].cell] /\ places[j].floor \in columns[places[i].cell]
        /\ Orderly(columns[places[i].cell])
    BY <1>2, <2>1
  <2>4. places[i].floor.hi + Clearance(columns[places[i].cell], places[i].floor) <= places[j].floor.hi
    BY <2>2, <2>3, ClearanceFits
  <2> QED
    BY <1>8, <2>4
<1>10. Stacked(out)
  BY <1>4, <1>9 DEF Stacked
<1>11. OnGrid(out)
  <2>1. \A k \in 1..n : <<places[k].cell[1], places[k].cell[2]>> \in Cells
    BY <1>2 DEF Cells
  <2> QED
    BY <1>4, <1>8, <2>1 DEF OnGrid
<1> QED
  BY <1>7, <1>10, <1>11 DEF out

----------------------------------------------------------------------------
(* The build *)

FieldInv == Pile /\ plan \in Plans /\ ConnectionsLeadBack

\* Whatever is built from triangles, compact spans lie above one another and
\* their connections lead back, until another field is built (addSpan, the
\* filters, BuildCompactHeightfield).
THEOREM BuiltConnectionsLeadBack ==
    ASSUME WalkableClimb < WalkableHeight
    PROVE  FieldBuildSpec => []ConnectionsLeadBack
<1>1. FieldStart => FieldInv
  <2>1. FieldStart => Pile
    BY EmptyPile DEF FieldStart
  <2>2. FieldStart => ConnectionsLeadBack
    BY DEF FieldStart, ConnectionsLeadBack, Stacked, Mutual
  <2> QED
    BY <2>1, <2>2 DEF FieldStart, FieldInv
<1>2. FieldInv /\ [FieldStep]_<<fieldVars, plan, chfVars>> => FieldInv'
  <2> SUFFICES ASSUME FieldInv, [FieldStep]_<<fieldVars, plan, chfVars>> PROVE FieldInv'
    OBVIOUS
  <2>1. UNCHANGED chfVars => ConnectionsLeadBack'
    BY DEF FieldInv, chfVars, ConnectionsLeadBack, Stacked, Mutual, Layer
  <2>2. UNCHANGED fieldVars => Pile'
    BY DEF FieldInv, fieldVars, Pile, KnownShapes, ColumnsAreUnions, Pieces
  <2>3. CASE RasterizeTriangles
    <3>1. Pile'
      BY <2>3, RasterizeKeeps DEF FieldInv, RasterizeTriangles
    <3> QED
      BY <2>1, <2>3, <3>1 DEF FieldInv, RasterizeTriangles
  <2>4. CASE Filters
    <3>1. plan.steps \in BOOLEAN /\ plan.ledges \in BOOLEAN /\ plan.clearance \in BOOLEAN
      BY FieldAssumption DEF FieldInv
    <3>2. Pile'
      BY <2>4, <3>1, FilterKeeps DEF FieldInv, Filters
    <3> QED
      BY <2>1, <2>4, <3>2 DEF FieldInv, Filters
  <2>5. CASE BuildCompactHeightfield
    <3>1. spans' = CompactSpans(columns) /\ con' = Connections(spans')
      BY <2>5 DEF BuildCompactHeightfield
    <3>2. CompactSpans(columns) \in Seq(OpenSpan) /\ Stacked(CompactSpans(columns))
      BY SpansStacked DEF FieldInv
    <3>3. Mutual(CompactSpans(columns), Connections(CompactSpans(columns)))
      BY <3>2, ConnectionsMutual
    <3>4. ConnectionsLeadBack'
      BY <3>1, <3>2, <3>3 DEF ConnectionsLeadBack
    <3> QED
      BY <2>2, <2>5, <3>4 DEF FieldInv, BuildCompactHeightfield
  <2>6. CASE MarkAreas \/ ErodeWalkableArea \/ MedianFilterWalkableArea
    BY <2>1, <2>2, <2>6 DEF FieldInv, MarkAreas, ErodeWalkableArea, MedianFilterWalkableArea
  <2>7. CASE UNCHANGED <<fieldVars, plan, chfVars>>
    BY <2>1, <2>2, <2>7 DEF FieldInv
  <2> QED
    BY <2>3, <2>4, <2>5, <2>6, <2>7 DEF FieldStep
<1>3. FieldInv => ConnectionsLeadBack
  BY DEF FieldInv
<1> QED
  BY <1>1, <1>2, <1>3, PTL DEF FieldBuildSpec
=============================================================================
