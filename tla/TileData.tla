------------------------------ MODULE TileData ------------------------------
(***************************************************************************)
(* The data of navigation mesh tiles, as CreateNavMeshData writes it, and   *)
(* the links that NavMesh.AddTile derives from it.  A piece of tile data    *)
(* has a place in the grid, polygons 1..Polys, inner edges between its own  *)
(* polygons and portal edges on a side; two portals meet when they lie on   *)
(* opposite sides and share a unit of a border.                             *)
(***************************************************************************)
EXTENDS Integers, FiniteSets

CONSTANTS
    TileRef,   \* encoded references, see NavMesh
    Data,      \* pieces of tile data
    CellOf,    \* CellOf[d]: header X and Y, a pair of integers
    LayerOf,   \* LayerOf[d]: header Layer
    Polys,     \* Polys[d]: PolyCount
    Inner,     \* Inner[d]: pairs of polygons that share an inner edge
    Portals,   \* Portals[d]: set of [poly, side, units] with an ExtLink edge
    MaxCon     \* 4: polygons one portal connects to in one tile

PortalSide == {0, 2, 4, 6}
OppositeTile(side) == (side + 4) % 8

ASSUME DataAssumption ==
    /\ CellOf \in [Data -> Int \X Int]
    /\ LayerOf \in [Data -> Nat]
    /\ Polys \in [Data -> Nat]
    /\ \A d \in Data :
          /\ Inner[d] \subseteq (1..Polys[d]) \X (1..Polys[d])
          /\ IsFiniteSet(Portals[d])
          /\ \A p \in Portals[d] : p.poly \in 1..Polys[d] /\ p.side \in PortalSide
    /\ MaxCon \in Nat

LocOf(d) == <<CellOf[d], LayerOf[d]>>

\* The cell next to c; the four diagonal ones hold no portals that meet c's.
Beside(c, side) == CASE side = 0 -> <<c[1] + 1, c[2]>>
                     [] side = 2 -> <<c[1], c[2] + 1>>
                     [] side = 4 -> <<c[1] - 1, c[2]>>
                     [] side = 6 -> <<c[1], c[2] - 1>>

\* The sides on which AddTile connects tiles d and e: all of them between
\* layers of one cell, else the one where e's cell lies.
Sides(d, e) == IF CellOf[d] = CellOf[e] THEN PortalSide
               ELSE {s \in PortalSide : CellOf[e] = Beside(CellOf[d], s)}

\* The polygons of e that portal p meets; the array takes the first MaxCon.
Meeting(p, e) == {q.poly : q \in {r \in Portals[e] :
                    r.side = OppositeTile(p.side) /\ r.units \cap p.units # {}}}
findConnectingPolys(p, e) ==
    {q \in Meeting(p, e) : Cardinality({r \in Meeting(p, e) : r < q}) < MaxCon}

\* A link: from polygon `poly' of the tile `at', across a portal (or {}
\* inside the tile), to polygon `toPoly' of the tile `to'.
InnerLinks(at, d) ==
    {[at |-> at, poly |-> e[1], via |-> {}, to |-> at, toPoly |-> e[2]] : e \in Inner[d]}

ExtLinks(at, d, to, e) ==
    UNION {{[at |-> at, poly |-> p.poly, via |-> {p}, to |-> to, toPoly |-> q] :
               q \in findConnectingPolys(p, e)} :
             p \in {r \in Portals[d] : r.side \in Sides(d, e)}}

\* The links of a set of present tiles: what each tile and each pair asks for.
Graph(present) ==
    (UNION {InnerLinks(t.ref, t.data) : t \in present})
    \cup (UNION {ExtLinks(t[1].ref, t[1].data, t[2].ref, t[2].data) :
                   t \in {u \in present \X present : u[1] # u[2]}})
=============================================================================
