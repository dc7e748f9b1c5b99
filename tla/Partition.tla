----------------------------- MODULE Partition -----------------------------
(***************************************************************************)
(* Partitioning of a compact heightfield into regions: the distance field,  *)
(* the steps of the watershed, and the sweeps of the monotone partitioning. *)
(* A region is a number, 0 for none; the regions of the border carry the    *)
(* flag BorderReg.                                                          *)
(***************************************************************************)
EXTENDS CompactField

CONSTANTS Stacks,       \* levels that are sorted at a time (nbStacks)
          ExpandRounds  \* rounds of expandRegions on a level

ASSUME PartitionAssumption == Stacks \in Nat \ {0} /\ ExpandRounds \in Nat

BorderReg == 32768
NoNeighbour == 65535    \* nullNei
Bordering(r) == r >= BorderReg

Scan(spans) == [i \in DOMAIN spans |-> i]
SameCell(spans, i, j) == spans[i].x = spans[j].x /\ spans[i].z = spans[j].z
Linked(con, i) == {con[i][d] : d \in Dirs} \ {None}

---------------------------------------------------------------------------
\* calculateDistanceField, in 16 bits.
Wrapping(v, step) == (v + step) % 65536
AtAreaEdge(con, areas, i) == \E d \in Dirs : con[i][d] = None \/ areas[con[i][d]] # areas[i]
DistanceFieldMut(spans, con, areas) ==
    FoldLeft(LAMBDA d, i : Relaxed(con, d, i, FirstWays, Wrapping),
             [i \in DOMAIN spans |-> IF AtAreaEdge(con, areas, i) THEN 0 ELSE 65535], Scan(spans))
DistanceField(spans, con, areas) ==
    Chamfer(spans, con, [i \in DOMAIN spans |-> IF AtAreaEdge(con, areas, i) THEN 0 ELSE 65535],
            Wrapping)

\* boxBlur, whose result BuildDistanceField does not store.
Blurred(con, dist) ==
    LET Or(j, v) == IF j = None THEN v ELSE dist[j]
        Sum(i) == dist[i] + SumFunction([n \in 1..4 |->
                    Or(con[i][n - 1], dist[i]) + Or(Via(con, i, n - 1, Turned(n - 1)), dist[i])]) IN
    [i \in DOMAIN dist |-> IF dist[i] <= 2 THEN dist[i] ELSE (Sum(i) + 5) \div 9]

---------------------------------------------------------------------------
\* paintRectRegion for the four strips of the border, later ones on top.
Strip(s, b) ==
    IF s.z >= Height - Lower(b, Height) THEN 4
    ELSE IF s.z < Lower(b, Height) THEN 3
    ELSE IF s.x >= Width - Lower(b, Width) THEN 2
    ELSE IF s.x < Lower(b, Width) THEN 1 ELSE 0
Painted(spans, areas, b) ==
    [i \in DOMAIN spans |-> IF b = 0 \/ areas[i] = NullArea \/ Strip(spans[i], b) = 0 THEN 0
                            ELSE BorderReg + Strip(spans[i], b)]
FirstRegion(b) == IF b = 0 THEN 1 ELSE 5

\* floodRegion.  No cell next to another region joins r; such cells depend on
\* the other regions only, so the order of the code's stack is of no concern.
Foreign(reg, areas, i, j, r) == j # None /\ areas[j] = areas[i] /\ reg[j] \notin {0, r}
Blocked(con, areas, reg, i, r) ==
    \E d \in Dirs : LET a == con[i][d] IN
        /\ a # None /\ areas[a] = areas[i] /\ ~Bordering(reg[a])
        /\ Foreign(reg, areas, i, a, r) \/ Foreign(reg, areas, i, con[a][Turned(d)], r)

Flood(con, open, seed) ==
    LET Wave[k \in 0..Len(con)] ==
            IF k = 0 THEN [new |-> {seed}, filled |-> {}]
            ELSE LET w == Wave[k - 1]
                     filled == w.filled \cup w.new IN
                 [new |-> (open \cap UNION {Linked(con, i) : i \in w.new}) \ filled,
                  filled |-> filled]
    IN Wave[Len(con)].filled

FloodedMut(con, areas, dist, reg, level, seed, r) ==
    LET open == {j \in DOMAIN reg : reg[j] = 0 /\ dist[j] >= Higher(level - 2, 0)
                                    /\ ~Blocked(con, areas, reg, j, r)} IN
    IF Blocked(con, areas, reg, seed, r) THEN {} ELSE Flood(con, open, seed)
Flooded(con, areas, dist, reg, level, seed, r) ==
    LET open == {j \in DOMAIN reg : /\ reg[j] = 0 /\ areas[j] = areas[seed]
                                    /\ dist[j] >= Higher(level - 2, 0)
                                    /\ ~Blocked(con, areas, reg, j, r)} IN
    IF Blocked(con, areas, reg, seed, r) THEN {} ELSE Flood(con, open, seed)

\* expandRegions: all cells at once take the region of their nearest neighbour.
Nearest(con, areas, reg, away, i) ==
    LET ways == {d \in Dirs : LET a == con[i][d] IN
                    a # None /\ areas[a] = areas[i] /\ reg[a] > 0 /\ ~Bordering(reg[a])}
        best == {d \in ways : \A e \in ways : away[con[i][d]] <= away[con[i][e]]} IN
    IF ways = {} THEN None ELSE con[i][Min(best)]

Taken(con, areas, g, cells) ==
    {i \in cells : g.reg[i] = 0 /\ Nearest(con, areas, g.reg, g.away, i) # None}
Expanded(con, areas, g, cells) ==
    LET taken == Taken(con, areas, g, cells)
        From(i) == Nearest(con, areas, g.reg, g.away, i) IN
    IF taken = {} THEN g
    ELSE [reg |-> Listed([i \in DOMAIN g.reg |-> IF i \in taken THEN g.reg[From(i)] ELSE g.reg[i]]),
          away |-> Listed([i \in DOMAIN g.reg |-> IF i \in taken THEN g.away[From(i)] + 2
                                                  ELSE g.away[i]])]
Expand(con, areas, grown, cells, rounds) ==
    LET After[k \in 0..rounds] ==
            IF k = 0 THEN grown ELSE Expanded(con, areas, After[k - 1], cells)
    IN After[rounds]

\* The elements of s that are in the set keep.
Picked(s, keep) ==
    LET Kept[k \in 0..Len(s)] ==
            IF k = 0 THEN <<>>
            ELSE IF s[k] \in keep THEN Append(Kept[k - 1], s[k]) ELSE Kept[k - 1]
    IN Kept[Len(s)]

\* sortCellsByLevel: the stack each free cell belongs to, if it is near enough.
Sorted(spans, areas, dist, reg, level) ==
    [n \in 1..Stacks |-> Picked(Scan(spans),
        {i \in DOMAIN spans : /\ areas[i] # NullArea /\ reg[i] = 0
                              /\ Higher(level \div 2 - dist[i] \div 2, 0) = n - 1})]
Free(reg, stack) == Picked(stack, {i \in DOMAIN reg : reg[i] = 0})

\* New regions for the seeds that are still free.
Seed(con, areas, dist, level, g, i) ==
    LET filled == Flooded(con, areas, dist, g.reg, level, i, g.next) IN
    IF g.reg[i] # 0 \/ filled = {} THEN g
    ELSE [reg |-> Listed([j \in DOMAIN g.reg |-> IF j \in filled THEN g.next ELSE g.reg[j]]),
          away |-> Listed([j \in DOMAIN g.reg |-> IF j \in filled THEN 0 ELSE g.away[j]]),
          next |-> g.next + 1]
Seeded(con, areas, dist, level, stack, grown) ==
    LET After[k \in 0..Len(stack)] ==
            IF k = 0 THEN grown ELSE Seed(con, areas, dist, level, After[k - 1], stack[k])
    IN After[Len(stack)]

---------------------------------------------------------------------------
\* One row of BuildRegionsMonotone and BuildLayerRegions.  sweeps[n] counts
\* the contacts ns of the n-th run of this row with the region nei above it;
\* above[r] counts all contacts of the row with region r.
NoSweep == [ns |-> 0, nei |-> 0]

\* A run that meets one region only counts its contacts.
Met(row, n, r) ==
    IF row.sweeps[n].nei \in {0, r}
    THEN [row EXCEPT !.sweeps[n] = [ns |-> @.ns + 1, nei |-> r], !.above[r] = @ + 1]
    ELSE [row EXCEPT !.sweeps[n].nei = NoNeighbour]

Swept(con, areas, row, i) ==
    LET left == con[i][0]
        up == con[i][3]
        joins == left # None /\ areas[left] = areas[i] /\ ~Bordering(row.reg[left])
        n == IF joins /\ row.reg[left] # 0 THEN row.reg[left] ELSE Len(row.sweeps) + 1
        begun == IF n <= Len(row.sweeps) THEN row ELSE [row EXCEPT !.sweeps = Append(@, NoSweep)]
        meets == up # None /\ areas[up] = areas[i] /\ row.reg[up] # 0 /\ ~Bordering(row.reg[up])
        met == IF meets THEN Met(begun, n, row.reg[up]) ELSE begun IN
    [met EXCEPT !.reg[i] = n]

RowSpansMut(spans, areas, z, b) ==
    {i \in DOMAIN spans : /\ spans[i].z = z /\ areas[i] # NullArea
                          /\ spans[i].x \in b + 1..Width - b - 1}
\* The spans of row z between the borders, which are swept in their order.
RowSpans(spans, areas, z, b) ==
    {i \in DOMAIN spans : /\ spans[i].z = z /\ areas[i] # NullArea
                          /\ spans[i].x \in b..Width - b - 1}
SweepRow(spans, con, areas, reg, z, b, next) ==
    LET mine == RowSpans(spans, areas, z, b)
        After[i \in 0..Len(spans)] ==
            IF i = 0 THEN [reg |-> reg, sweeps |-> <<>>, above |-> [r \in 1..next |-> 0]]
            ELSE IF i \in mine THEN Swept(con, areas, After[i - 1], i) ELSE After[i - 1]
    IN After[Len(spans)]

\* A run is the continuation of the region above if nothing else touches it.
Continues(row, n) ==
    LET s == row.sweeps[n] IN s.nei \notin {0, NoNeighbour} /\ row.above[s.nei] = s.ns
SweepIds(row, next) ==
    [n \in DOMAIN row.sweeps |->
        IF Continues(row, n) THEN row.sweeps[n].nei
        ELSE next + Cardinality({m \in 1..n - 1 : ~Continues(row, m)})]
Renumbered(spans, row, z, b, next) ==
    LET ids == SweepIds(row, next) IN
    [i \in DOMAIN spans |->
        IF spans[i].z = z /\ spans[i].x \in b..Width - b - 1 /\ row.reg[i] \in DOMAIN ids
        THEN ids[row.reg[i]] ELSE row.reg[i]]
NextId(row, next) == next + Cardinality({n \in DOMAIN row.sweeps : ~Continues(row, n)})
=============================================================================
