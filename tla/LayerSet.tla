------------------------------ MODULE LayerSet ------------------------------
(***************************************************************************)
(* BuildHeightfieldLayers: the compact heightfield is swept into regions,   *)
(* the regions are grouped into layers that have one span in a cell, and    *)
(* each layer is written down as a grid.  A region is a number from 1 on, 0 *)
(* the code's 0xff; a region is a record [over, neis, lo, hi, layer, base]. *)
(***************************************************************************)
EXTENDS Regions

CONSTANTS OverlapLimit,    \* maxLayersDef
          NeighbourLimit,  \* maxNeisDef
          QueueLimit,      \* maxStack
          IdLimit,         \* the largest number of regions
          HeightLimit      \* the height that a layer cannot have

ASSUME LayerAssumption ==
    /\ {OverlapLimit, NeighbourLimit, QueueLimit, IdLimit, HeightLimit} \subseteq Nat \ {0}

Inner(s, b) == s.x \in b..Width - b - 1 /\ s.z \in b..Height - b - 1

---------------------------------------------------------------------------
\* The sweeps: like those of BuildLayerRegions, but a run goes on whatever the area.
LayerSwept(con, areas, row, i) ==
    LET left == con[i][0]
        up == con[i][3]
        joins == left # None /\ areas[left] # NullArea /\ row.reg[left] # 0
        n == IF joins THEN row.reg[left] ELSE Len(row.sweeps) + 1
        begun == IF joins THEN row ELSE [row EXCEPT !.sweeps = Append(@, NoSweep)]
        met == IF up # None /\ row.reg[up] # 0 THEN Met(begun, n, row.reg[up]) ELSE begun IN
    [met EXCEPT !.reg[i] = n]

\* The sweeps array has one place for every column of the field.
SweptLayers(spans, con, areas, b) ==
    LET Step(row, i) == LayerSwept(con, areas, row, i)
        Row(g, z) ==
            LET row == FoldLeft(Step, [reg |-> g.reg, sweeps |-> <<>>, above |-> [r \in 1..g.next |-> 0]],
                                Picked(Scan(spans), RowSpans(spans, areas, z, b))) IN
            IF g.fails THEN g
            ELSE [reg |-> Listed(Renumbered(spans, row, z, b, g.next)), next |-> NextId(row, g.next),
                  fails |-> Len(row.sweeps) > Width \/ NextId(row, g.next) > IdLimit + 1] IN
    FoldLeft(Row, [reg |-> [i \in DOMAIN spans |-> 0], next |-> 1, fails |-> FALSE],
             [n \in 1..Height - 2 * b |-> b + n - 1])

---------------------------------------------------------------------------
\* What is known of a region: its heights, the first of its neighbours in the
\* order of the scan, and the regions above and below it in some cell.
LayerNeighbours(con, reg, r) ==
    LET all == Neighbours(con, reg, r) IN SubSeq(all, 1, Lower(Len(all), NeighbourLimit))
Noted(spans, reg, i) ==
    reg[i] # 0 /\ Cardinality({k \in 1..i - 1 : SameCell(spans, i, k) /\ reg[k] # 0}) < OverlapLimit
LayerRegions(spans, con, reg, n) ==
    Listed([r \in 1..n |->
        LET mine == {i \in DOMAIN reg : reg[i] = r}
            heights == {spans[i].y : i \in mine} IN
        [lo |-> Min(heights), hi |-> Max(heights), neis |-> LayerNeighbours(con, reg, r),
         over |-> {reg[j] : j \in {k \in DOMAIN reg : /\ Noted(spans, reg, k) /\ reg[k] # r
                        /\ \E i \in mine : SameCell(spans, i, k) /\ Noted(spans, reg, i)}},
         layer |-> 0, base |-> FALSE]])

\* addUniqueArray fails at some point if and only if a list would be too long in the end.
Overfull(regs) == \E r \in DOMAIN regs : Cardinality(regs[r].over) > OverlapLimit

Span(a, b) == Max({a.hi, b.hi}) - Min({a.lo, b.lo})
Widened(a, b) == [a EXCEPT !.over = @ \cup b.over, !.lo = Lower(@, b.lo), !.hi = Higher(@, b.hi)]

\* A layer grows from a base over the neighbours of what it has.
Joinable(regs, root, n) ==
    /\ regs[n].layer = 0 /\ n \notin regs[root].over
    /\ Span(regs[root], regs[n]) < HeightLimit
RECURSIVE Spreading(_, _, _)
Spreading(regs, root, queue) ==
    LET Step(g, n) ==
            IF Joinable(g.regs, root, n) /\ Len(g.queue) < QueueLimit
            THEN [regs |-> [g.regs EXCEPT ![n].layer = g.regs[root].layer,
                                          ![root] = Widened(@, g.regs[n])],
                  queue |-> Append(g.queue, n)]
            ELSE g
        grown == FoldLeft(Step, [regs |-> regs, queue |-> Tail(queue)], regs[Head(queue)].neis) IN
    IF queue = <<>> THEN regs ELSE Spreading(grown.regs, root, grown.queue)
GrownLayers(regs) ==
    LET Root(g, r) ==
            IF g.regs[r].layer # 0 THEN g
            ELSE [regs |-> Listed(Spreading([g.regs EXCEPT ![r].layer = g.next, ![r].base = TRUE], r, <<r>>)),
                  next |-> g.next + 1] IN
    FoldLeft(Root, [regs |-> regs, next |-> 1], [r \in DOMAIN regs |-> r]).regs

\* A base takes over whole layers that are near enough in height.
NearInHeight(a, b) ==
    LET reach == (4 * WalkableHeight) % 65536 IN
    a.lo <= (b.hi + reach) % 65536 /\ b.lo <= (a.hi + reach) % 65536
AbsorbableMut(regs, i, j) ==
    /\ i # j /\ regs[j].base
    /\ NearInHeight(regs[i], regs[j])
    /\ Span(regs[i], regs[j]) < HeightLimit
    /\ j \notin regs[i].over
Absorbable(regs, i, j) ==
    /\ i # j /\ regs[j].base
    /\ NearInHeight(regs[i], regs[j])
    /\ Span(regs[i], regs[j]) < HeightLimit
    /\ \A k \in DOMAIN regs : regs[k].layer = regs[j].layer => k \notin regs[i].over
RECURSIVE Absorbing(_, _)
Absorbing(regs, i) ==
    LET found == {j \in DOMAIN regs : Absorbable(regs, i, j)}
        layer == regs[Min(found)].layer
        taken == {k \in DOMAIN regs : regs[k].layer = layer}
        Moved(k) ==
            IF k = i THEN FoldSet(LAMBDA n, a : Widened(a, regs[n]), regs[i], taken)
            ELSE IF k \in taken THEN [regs[k] EXCEPT !.base = FALSE, !.layer = regs[i].layer]
            ELSE regs[k] IN
    IF found = {} THEN regs ELSE Absorbing(Listed([k \in DOMAIN regs |-> Moved(k)]), i)
JoinedLayers(regs) ==
    LET Step(all, i) == IF all[i].base THEN Absorbing(all, i) ELSE all IN
    FoldLeft(Step, regs, [r \in DOMAIN regs |-> r])

---------------------------------------------------------------------------
\* Ids without gaps, in their own order.
Ranked(ids) == [n \in DOMAIN ids |-> Cardinality({m \in Range(ids) : m <= ids[n]})]
LayerOf(reg, regs) ==
    LET ranks == Ranked([r \in DOMAIN regs |-> regs[r].layer]) IN
    [i \in DOMAIN reg |-> IF reg[i] = 0 THEN 0 ELSE ranks[reg[i]]]

\* One cell of a layer: the height in eight bits, raised to what lies beyond a
\* portal, and the directions in which it goes on inside and outside the layer.
LayerCell(spans, con, areas, layerOf, i, lo, b) ==
    LET ways == {d \in Dirs : con[i][d] # None /\ areas[con[i][d]] # NullArea}
        portals == {d \in ways : layerOf[con[i][d]] # layerOf[i]}
        Raise(j) == (spans[j].y - lo) % (HeightLimit + 1)
        raised == {Raise(con[i][d]) : d \in {e \in portals : spans[con[i][e]].y > lo}} IN
    [height |-> Max({Raise(i)} \cup raised), area |-> areas[i], portals |-> portals,
     cons |-> {d \in ways \ portals : Inner(spans[con[i][d]], b)}]
EmptyCell == [height |-> HeightLimit, area |-> NullArea, portals |-> {}, cons |-> {}]

LayerGrid(spans, con, areas, reg, regs, b, l) ==
    LET layerOf == LayerOf(reg, regs)
        base == CHOOSE r \in DOMAIN regs : regs[r].base /\ \E i \in DOMAIN reg : reg[i] = r /\ layerOf[i] = l
        At(x, z) == {i \in DOMAIN spans : layerOf[i] = l /\ spans[i].x = x + b /\ spans[i].z = z + b} IN
    [w |-> Width - 2 * b, h |-> Height - 2 * b, hmin |-> regs[base].lo, hmax |-> regs[base].hi,
     cells |-> [c \in (0..Width - 2 * b - 1) \X (0..Height - 2 * b - 1) |->
                    IF At(c[1], c[2]) = {} THEN EmptyCell
                    ELSE LayerCell(spans, con, areas, layerOf, Max(At(c[1], c[2])), regs[base].lo, b)]]

LayerGrids(spans, con, areas, reg, regs, b) ==
    Listed([l \in 1..Max({0} \cup Range(LayerOf(reg, regs))) |->
        LayerGrid(spans, con, areas, reg, regs, b, l)])
=============================================================================
