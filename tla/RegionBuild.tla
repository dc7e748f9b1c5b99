---------------------------- MODULE RegionBuild ----------------------------
(***************************************************************************)
(* The division of a compact heightfield into regions, by whatever builder; *)
(* the loops take one action for a level of the watershed and one for a row *)
(* of the sweeps.                                                           *)
(***************************************************************************)
EXTENDS FieldBuild, Partition

ASSUME RegionAssumption == \A p \in Plans : p.border \in Nat

VARIABLES reg, away, next,  \* srcReg, srcDist, the next id
          level, stacks     \* level and lvlStacks, or the row of the sweeps
regionVars == <<reg, away, next, level, stacks>>
vars == <<fieldVars, stage, plan, chfVars, areas, dist, regionVars>>

BuildDistanceField ==
    /\ At("areas") /\ plan.builder # "tiles" /\ Goto("distance")
    /\ dist' = DistanceField(spans, con, areas)
    /\ UNCHANGED <<fieldVars, plan, chfVars, areas, regionVars>>

---------------------------------------------------------------------------
\* BuildRegions, up to its loop.
StartWatershed ==
    /\ At("distance") /\ plan.builder = "watershed" /\ Goto("levels")
    /\ reg' = Painted(spans, areas, plan.border)
    /\ away' = [i \in DOMAIN spans |-> 0]
    /\ next' = FirstRegion(plan.border)
    /\ level' = 2 * ((Max({0} \cup Range(dist)) + 1) \div 2)
    /\ stacks' = <<>>
    /\ UNCHANGED <<fieldVars, plan, chfVars, areas, dist>>

\* One level.  The stacks left are those of the lower levels, the first of
\* them that of the level before.
Level ==
    LET lower == Higher(level - 2, 0)
        sorted == IF Len(stacks) <= 1 THEN Sorted(spans, areas, dist, reg, lower)
                  ELSE <<stacks[2] \o Free(reg, stacks[1])>> \o SubSeq(stacks, 3, Len(stacks))
        rounds == IF lower > 0 THEN ExpandRounds ELSE Len(spans) + 1 IN
    /\ At("levels") /\ level > 0
    /\ level' = lower
    /\ stacks' = sorted
    /\ \E grown \in {Expand(con, areas, [reg |-> reg, away |-> away], Range(sorted[1]), rounds)} :
        LET seeded == Seeded(con, areas, dist, lower, sorted[1],
                             [reg |-> grown.reg, away |-> grown.away, next |-> next]) IN
        reg' = seeded.reg /\ away' = seeded.away /\ next' = seeded.next
    /\ UNCHANGED <<stage, fieldVars, plan, chfVars, areas, dist>>

\* What is left over joins the regions beside it.
ExpandAll ==
    LET left == {i \in DOMAIN reg : reg[i] = 0 /\ areas[i] # NullArea}
        grown == Expand(con, areas, [reg |-> reg, away |-> away], left, Len(spans) + 1) IN
    /\ At("levels") /\ level = 0 /\ Goto("divided")
    /\ reg' = grown.reg /\ away' = grown.away
    /\ UNCHANGED <<fieldVars, plan, chfVars, areas, dist, next, level, stacks>>

\* BuildRegionsMonotone and BuildLayerRegions; level is the row.
StartSweeps ==
    /\ At("distance") /\ plan.builder # "watershed" /\ Goto("rows")
    /\ reg' = Painted(spans, areas, plan.border)
    /\ next' = FirstRegion(plan.border)
    /\ level' = plan.border
    /\ UNCHANGED <<fieldVars, plan, chfVars, areas, dist, away, stacks>>

\* A row that starts more runs than there are sweeps ends in a panic.
Row ==
    LET row == SweepRow(spans, con, areas, reg, level, plan.border, next) IN
    /\ At("rows") /\ level < Height - plan.border
    /\ IF Len(row.sweeps) > Higher(Width, Height)
       THEN Goto("panic") /\ UNCHANGED <<reg, next, level>>
       ELSE /\ reg' = Renumbered(spans, row, level, plan.border, next)
            /\ next' = NextId(row, next)
            /\ level' = level + 1
            /\ UNCHANGED stage
    /\ UNCHANGED <<fieldVars, plan, chfVars, areas, dist, away, stacks>>
RowsDone ==
    /\ At("rows") /\ level >= Height - plan.border /\ Goto("divided")
    /\ UNCHANGED <<fieldVars, plan, chfVars, areas, dist, regionVars>>

---------------------------------------------------------------------------
Init ==
    /\ FieldStart
    /\ reg = <<>> /\ away = <<>> /\ next = 1 /\ level = 0 /\ stacks = <<>>

RegionStep ==
    \/ FieldStep /\ UNCHANGED regionVars
    \/ BuildDistanceField
    \/ StartWatershed \/ Level \/ ExpandAll \/ StartSweeps \/ Row \/ RowsDone

\* Whatever follows has stages of its own.
RegionStages == {"start", "filtered", "compact", "marked", "eroded", "areas", "distance",
                 "levels", "rows", "divided"}
Later == stage' \notin RegionStages
RegionBuildSpec == Init /\ [][RegionStep \/ Later]_vars

---------------------------------------------------------------------------
RegionIds == {r \in Range(reg) : r # 0 /\ ~Bordering(r)}

\* When the builders are done, no ground is left without a region that could
\* join the region beside it.
NoGroundLeft ==
    stage = "divided" =>
        \A i \in DOMAIN reg : areas[i] # NullArea /\ reg[i] = 0 =>
            /\ plan.builder = "watershed"
            /\ \A j \in Linked(con, i) : areas[j] = areas[i] => reg[j] \notin RegionIds
=============================================================================
