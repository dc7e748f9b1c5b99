---------------------------- MODULE MCPathSearch ----------------------------
(* Graphs of six polygons in three tiles for TLC.  Each of seven edges is   *)
(* absent or has its midpoint at one of two places; polygon 6 would be a    *)
(* short cut from 1 to 5 but does not pass the filter.  Polygon 3 is cheap, *)
(* so that a detour through it can open a closed node again.                *)
EXTENDS WholeSearch
Edges == {{1, 2}, {1, 3}, {1, 4}, {2, 3}, {2, 5}, {3, 4}, {4, 5}}
Closed == {{1, 6}, {5, 6}}
Tile(p) == CASE p = 4 -> 1 [] p = 5 -> 2 [] OTHER -> 0
\* Side >> 1 of a link: 0 inside of a tile and towards +x.
Crossing(p, q) == CASE Tile(p) = 1 /\ Tile(q) = 0 -> 2
                    [] Tile(p) = 0 /\ Tile(q) = 2 -> 1
                    [] Tile(p) = 2 /\ Tile(q) = 0 -> 3
                    [] Tile(p) = 2 /\ Tile(q) = 1 -> 3
                    [] Tile(p) = 1 /\ Tile(q) = 2 -> 0
                    [] OTHER -> 0
MCLinks(mids, p) ==
    LET all == [q \in 1..6 |-> [to |-> q, side |-> Crossing(p, q),
                                mid |-> IF {p, q} \in Edges THEN mids[{p, q}] ELSE 2]] IN
    SelectSeq(all, LAMBDA l : {p, l.to} \in Closed
                              \/ ({p, l.to} \in Edges /\ mids[{p, l.to}] # 9))
MCGraphs == [Edges -> {0, 3, 9}]
MCArea == [p \in Poly |-> IF p = 3 THEN 3 ELSE 10]
=============================================================================
