------------------------------ MODULE Regions ------------------------------
(***************************************************************************)
(* What becomes of the regions of a partition: small ones are given up or   *)
(* merged, by both users of regions.                                        *)
(***************************************************************************)
EXTENDS Partition

\* Neighbours around a region, as the walk along its contour meets them.
Facing(con, reg, i, d) == IF con[i][d] = None THEN 0 ELSE reg[con[i][d]]
SolidEdge(con, reg, i, d) == Facing(con, reg, i, d) # reg[i]

\* removeAdjacentNeighbours: no entry equals the next, the last's next being the first.
RECURSIVE Deduplicated(_, _)
Deduplicated(s, i) ==
    IF i > Len(s) \/ Len(s) <= 1 THEN s
    ELSE IF s[i] = s[(i % Len(s)) + 1] THEN Deduplicated(RemoveAt(s, i), i)
    ELSE Deduplicated(s, i + 1)

RECURSIVE WalkRegion(_, _, _, _, _, _)
WalkRegion(con, reg, i, d, start, seen) ==
    LET solid == SolidEdge(con, reg, i, d)
        r == Facing(con, reg, i, d)
        noted == IF solid /\ r # seen[Len(seen)] THEN Append(seen, r) ELSE seen
        next == IF solid THEN <<i, Turned(d)>> ELSE <<con[i][d], (d + 3) % 4>> IN
    IF next = start THEN noted ELSE WalkRegion(con, reg, next[1], next[2], start, noted)

\* walkContourRegion from the first span of r that has an edge.
Around(con, reg, r) ==
    LET edges == {i \in DOMAIN reg : reg[i] = r /\ \E d \in Dirs : SolidEdge(con, reg, i, d)}
        i == Min(edges)
        d == Min({e \in Dirs : SolidEdge(con, reg, i, e)}) IN
    IF edges = {} THEN <<>>
    ELSE Deduplicated(WalkRegion(con, reg, i, d, <<i, d>>, <<Facing(con, reg, i, d)>>), 1)

\* The first part of mergeAndFilterRegions: what is known of each region.
Described(spans, con, areas, reg, n) ==
    Listed([r \in 1..n |->
        LET mine == {i \in DOMAIN reg : reg[i] = r}
            others == {j \in DOMAIN reg : reg[j] \in 1..n /\ \E i \in mine : i # j /\ SameCell(spans, i, j)} IN
        [id |-> r, count |-> Cardinality(mine), connections |-> Around(con, reg, r),
         floors |-> {reg[j] : j \in others}, overlap |-> r \in {reg[j] : j \in others},
         area |-> IF mine = {} THEN NullArea ELSE areas[Min(mine)]]])

\* Regions that hang together, from one of them, through connections that are
\* not to the border; a visited region is not entered again.
RECURSIVE Together(_, _, _, _)
Together(regions, visited, new, found) ==
    LET next == {r \in UNION {Range(regions[n].connections) : n \in new} :
                    r # 0 /\ ~Bordering(r) /\ r \notin visited \cup found \cup new} IN
    IF new = {} THEN found ELSE Together(regions, visited, next, found \cup new)

\* Groups that are too small are given up, unless they touch the border.
Size(regions, group) == MapThenSumSet(LAMBDA n : regions[n].count, group)
TouchesBorder(regions, group) == \E n \in group : \E c \in Range(regions[n].connections) : Bordering(c)
IslandMut(regions, group, minArea) ==
    Size(regions, group) <= minArea /\ ~TouchesBorder(regions, group)
Island(regions, group, minArea) ==
    Size(regions, group) < minArea /\ ~TouchesBorder(regions, group)
RemoveSmall(regions, minArea) ==
    LET Group(g, r) ==
            LET group == Together(regions, g.visited, {r}, {}) IN
            IF r \in g.visited \/ regions[r].count = 0 THEN g
            ELSE [visited |-> g.visited \cup group,
                  killed |-> g.killed \cup (IF Island(regions, group, minArea) THEN group ELSE {})]
        killed == FoldLeft(Group, [visited |-> {}, killed |-> {}], Scan(regions)).killed IN
    Listed([r \in DOMAIN regions |->
        IF r \in killed THEN [regions[r] EXCEPT !.id = 0, !.count = 0] ELSE regions[r]])

Occurrences(s, v) == Cardinality({k \in DOMAIN s : s[k] = v})
CanMerge(a, b) ==
    a.area = b.area /\ Occurrences(a.connections, b.id) <= 1 /\ b.id \notin a.floors

\* The rest of the neighbourhood after the place where the other region is.
After(s, v) == LET k == CHOOSE k \in DOMAIN s : s[k] = v /\ \A m \in 1..k - 1 : s[m] # v IN
               [m \in 1..Len(s) - 1 |-> s[((k + m - 1) % Len(s)) + 1]]

\* mergeRegions: reg goes into target; replaceNeighbour for all the others.
Absorbed(target, reg) ==
    [target EXCEPT !.connections = Deduplicated(After(@, reg.id) \o After(reg.connections, target.id), 1),
                   !.floors = @ \cup reg.floors,
                   !.count = @ + reg.count]
Replaced(region, old, new) ==
    LET Renamed(v) == IF v = old THEN new ELSE v
        ring == [k \in DOMAIN region.connections |-> Renamed(region.connections[k])] IN
    [region EXCEPT !.connections = IF old \in Range(@) THEN Deduplicated(ring, 1) ELSE @,
                   !.floors = {Renamed(v) : v \in @}]
Merge(regions, r, t) ==
    LET old == regions[r].id
        new == regions[t].id
        joined == [regions EXCEPT ![t] = Absorbed(@, regions[r]),
                                  ![r] = [@ EXCEPT !.count = 0, !.connections = <<>>]] IN
    IF old \notin Range(regions[t].connections) THEN regions ELSE
    Listed([n \in DOMAIN regions |->
        IF joined[n].id = 0 THEN joined[n]
        ELSE Replaced(IF joined[n].id = old THEN [joined[n] EXCEPT !.id = new] ELSE joined[n],
                      old, new)])

Mergeable(regions, r, mergeSize) ==
    LET reg == regions[r] IN
    /\ reg.id # 0 /\ ~reg.overlap /\ reg.count # 0
    /\ reg.count <= mergeSize \/ 0 \notin Range(reg.connections)
Partners(regions, r) ==
    {n \in {c \in Range(regions[r].connections) : c # 0 /\ ~Bordering(c)} :
        /\ regions[n].id \notin {0, regions[r].id} /\ ~regions[n].overlap
        /\ CanMerge(regions[r], regions[n]) /\ CanMerge(regions[n], regions[r])}

\* The smallest partner, the first of them around the region.
Partner(regions, r) ==
    LET ring == regions[r].connections
        best == {k \in DOMAIN ring : /\ ring[k] \in Partners(regions, r)
                                     /\ \A n \in Partners(regions, r) :
                                            regions[ring[k]].count <= regions[n].count} IN
    ring[Min(best)]
MergeOne(regions, r, mergeSize) ==
    IF ~Mergeable(regions, r, mergeSize) \/ Partners(regions, r) = {} THEN regions
    ELSE Merge(regions, r, regions[Partner(regions, r)].id)
RECURSIVE MergeSmall(_, _)
MergeSmall(regions, mergeSize) ==
    LET Step(all, r) == MergeOne(all, r, mergeSize)
        merged == FoldLeft(Step, regions, Scan(regions)) IN
    IF merged = regions THEN regions ELSE MergeSmall(merged, mergeSize)

\* Ids without gaps, in the order of the regions' numbers, for all that is left.
Compressed(ids) ==
    [n \in DOMAIN ids |->
        IF ids[n] = 0 THEN 0
        ELSE Cardinality({ids[m] : m \in 1..Min({k \in DOMAIN ids : ids[k] = ids[n]})} \ {0})]
Remapped(reg, ids) ==
    [i \in DOMAIN reg |-> IF reg[i] = 0 \/ Bordering(reg[i]) THEN reg[i] ELSE ids[reg[i]]]

MergeAndFilterRegions(spans, con, areas, reg, next, minArea, mergeSize) ==
    LET described == Described(spans, con, areas, reg, next)
        merged == MergeSmall(RemoveSmall(described, minArea), mergeSize) IN
    Remapped(reg, Compressed([r \in 1..next |-> merged[r].id]))

---------------------------------------------------------------------------
\* mergeAndFilterLayerRegions.  The neighbours are in the order in which the
\* scan meets them.
Neighbours(con, reg, r) ==
    LET ways == {w \in (DOMAIN reg) \X Dirs : reg[w[1]] = r /\ con[w[1]][w[2]] # None}
        To(w) == reg[con[w[1]][w[2]]]
        First(q) == Min({4 * w[1] + w[2] : w \in {v \in ways : To(v) = q}}) IN
    SetToSortSeq({q \in {To(w) : w \in ways} : q \notin {0, r} /\ ~Bordering(q)},
                 LAMBDA p, q : First(p) < First(q))

LayerDescribed(spans, con, areas, reg, n) ==
    Listed([r \in 1..n |->
        LET mine == {i \in DOMAIN reg : reg[i] = r} IN
        [id |-> 0, count |-> Cardinality(mine), neighbours |-> Neighbours(con, reg, r),
         floors |-> {reg[j] : j \in {k \in DOMAIN reg : reg[k] \in (1..n) \ {r}
                                        /\ \E i \in mine : SameCell(spans, i, k)}},
         border |-> \E i \in mine : \E j \in Linked(con, i) : Bordering(reg[j]),
         area |-> IF mine = {} THEN NullArea ELSE areas[Max(mine)]]])

\* The neighbour n of r joins the layer of root unless it lies above or below it.
Joins(all, root, r, n) ==
    all[n].id = 0 /\ all[n].area = all[r].area /\ n \notin all[root].floors
Joined(all, root, n) ==
    [all EXCEPT ![n] = [@ EXCEPT !.id = all[root].id, !.count = 0],
                ![root] = [@ EXCEPT !.count = @ + all[n].count, !.floors = @ \cup all[n].floors,
                                    !.border = @ \/ all[n].border]]

RECURSIVE GrowLayer(_, _, _)
GrowLayer(all, root, queue) ==
    LET r == Head(queue)
        Step(g, n) == IF Joins(g.all, root, r, n)
                      THEN [all |-> Joined(g.all, root, n), queue |-> Append(g.queue, n)] ELSE g
        grown == FoldLeft(Step, [all |-> all, queue |-> Tail(queue)], all[r].neighbours) IN
    IF queue = <<>> THEN all ELSE GrowLayer(grown.all, root, grown.queue)

LayerIds(regions) ==
    LET Begin(g, r) == IF g.all[r].id # 0 THEN g
                        ELSE [all |-> GrowLayer([g.all EXCEPT ![r].id = g.layer], r, <<r>>),
                              layer |-> g.layer + 1] IN
    FoldLeft(Begin, [all |-> regions, layer |-> 1], Scan(regions)).all

MergeAndFilterLayers(spans, con, areas, reg, next, minArea) ==
    LET all == LayerIds(LayerDescribed(spans, con, areas, reg, next))
        small == {all[r].id : r \in {n \in 1..next : all[n].count \in 1..minArea - 1 /\ ~all[n].border}} IN
    Remapped(reg, Compressed([r \in 1..next |-> IF all[r].id \in small THEN 0 ELSE all[r].id]))
=============================================================================
