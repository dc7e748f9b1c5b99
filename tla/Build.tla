------------------------------- MODULE Build -------------------------------
(***************************************************************************)
(* The build of a navigation mesh from triangles up to its regions, one     *)
(* action for each step of the pipeline.                                    *)
(***************************************************************************)
EXTENDS RegionBuild, Regions

MergeAndFilter ==
    /\ At("divided") /\ Goto("regions")
    /\ reg' = IF plan.builder = "layers"
              THEN MergeAndFilterLayers(spans, con, areas, reg, next, plan.minArea)
              ELSE MergeAndFilterRegions(spans, con, areas, reg, next, plan.minArea, plan.mergeSize)
    /\ UNCHANGED <<fieldVars, plan, chfVars, areas, dist, away, next, level, stacks>>

Next == RegionStep \/ MergeAndFilter

---------------------------------------------------------------------------
\* The spans that are reached from new without leaving the set within.
RECURSIVE Spread(_, _, _)
Spread(within, new, found) ==
    LET more == {j \in UNION {Linked(con, i) : i \in new} : j \in within} \ (found \cup new) IN
    IF new = {} THEN found ELSE Spread(within, more, found \cup new)

\* Two scans are enough: at every cell the distance is what its neighbours make
\* of it (ErodeWalkableArea and calculateDistanceField).
DistancesExact == Exact(con, dist, IF stage = "distance" THEN 65535 ELSE MaxDistance)

Members(r) == {i \in DOMAIN reg : reg[i] = r}

\* While regions flood, expand and sweep, each is one piece of walkable ground of
\* one kind, and none lies above itself, whatever builder divides the field.
RegionsConnected ==
    stage \in {"levels", "rows", "divided"} =>
        /\ \A r \in RegionIds : LET i == Min(Members(r)) IN
            /\ Spread(Members(r), {i}, {}) = Members(r)
            /\ \A j \in Members(r) : areas[j] = areas[i] /\ areas[j] # NullArea
        /\ \A i, j \in DOMAIN reg :
            i < j /\ SameCell(spans, i, j) /\ reg[i] \in RegionIds => reg[i] # reg[j]

\* Merging and filtering give up a region only if it is smaller than the least
\* that is kept and does not touch the border.
SmallIsland(r) ==
    /\ Cardinality(Members(r)) < plan.minArea
    /\ \A i \in Members(r) : \A j \in Linked(con, i) : ~Bordering(reg[j])
LargeRegionsStay ==
    [][stage = "divided" =>
        \A i \in DOMAIN reg : reg[i] \in RegionIds /\ reg'[i] = 0 => SmallIsland(reg[i])]_vars
=============================================================================
