---------------------------- MODULE FieldBuild ----------------------------
(***************************************************************************)
(* The build of a compact heightfield from triangles: rasterization, the    *)
(* filters, the compact spans with their connections, and the operations on *)
(* areas, one action for each call.                                         *)
(***************************************************************************)
EXTENDS CompactField

CONSTANTS Plans   \* how the program calls the pipeline

ASSUME FieldAssumption ==
    /\ MaxLayers \in Nat /\ MaxClearance \in Nat /\ MaxDistance \in Nat
    /\ HighestCeiling \in Nat
    /\ \A p \in Plans : p.steps \in BOOLEAN /\ p.ledges \in BOOLEAN /\ p.clearance \in BOOLEAN

VARIABLES stage,            \* what was done last
          plan,             \* the parameters of this build
          spans, con,       \* chf.Spans and their connections
          areas,            \* chf.Areas
          dist              \* the distances last calculated
fieldVars == <<columns, todo, done>>
chfVars == <<spans, con>>

At(s) == stage = s
Goto(s) == stage' = s

Filters ==
    /\ At("start") /\ todo = {} /\ Goto("filtered")
    /\ FilterSpans(plan.steps, plan.ledges, plan.clearance)
    /\ UNCHANGED <<plan, chfVars, areas, dist>>

RasterizeTriangles ==
    /\ At("start")
    /\ \E shape \in todo : Rasterize(shape)
    /\ UNCHANGED <<stage, plan, chfVars, areas, dist>>

BuildCompactHeightfield ==
    /\ At("filtered") /\ Goto("compact")
    /\ spans' = CompactSpans(columns)
    /\ con' = Connections(spans')
    /\ areas' = SpanAreas(columns)
    /\ UNCHANGED <<fieldVars, plan, dist>>

\* The operations on areas: volumes are marked, then the ground is eroded.
MarkAreas ==
    /\ At("compact") /\ Goto("marked")
    /\ areas' = FoldLeft(LAMBDA a, m : MarkedArea(spans, a, m), areas, plan.volumes)
    /\ UNCHANGED <<fieldVars, plan, chfVars, dist>>

ErodeWalkableArea ==
    /\ At("marked") /\ Goto("eroded")
    /\ dist' = ErosionDistance(spans, con, areas)
    /\ areas' = Eroded(spans, con, areas, plan.radius)
    /\ UNCHANGED <<fieldVars, plan, chfVars>>

MedianFilterWalkableArea ==
    /\ At("eroded") /\ Goto("areas")
    /\ areas' = IF plan.median THEN MedianFiltered(con, areas) ELSE areas
    /\ UNCHANGED <<fieldVars, plan, chfVars, dist>>

FieldStart ==
    /\ Empty
    /\ stage = "start" /\ plan \in Plans
    /\ spans = <<>> /\ con = <<>> /\ areas = <<>> /\ dist = <<>>

FieldStep ==
    \/ RasterizeTriangles \/ Filters \/ BuildCompactHeightfield
    \/ MarkAreas \/ ErodeWalkableArea \/ MedianFilterWalkableArea

\* Whatever follows leaves columns, spans and connections alone.
FieldBuildSpec == FieldStart /\ [][FieldStep]_<<fieldVars, plan, chfVars>>

---------------------------------------------------------------------------
\* Compact spans leave room for one another, and a connection leads to a span
\* that leads back (BuildCompactHeightfield).
ConnectionsLeadBack == Stacked(spans) /\ Mutual(spans, con)
=============================================================================
