----------------------------- MODULE MCNavMesh -----------------------------
(* Tiles for TLC: a and b next to each other, b2 another version of b, and  *)
(* c a second layer in a's cell.  One long portal of a meets two polygons.  *)
EXTENDS NavMesh
CONSTANTS a, b, b2, c

MCCellOf == [d \in Data |-> IF d \in {b, b2} THEN <<1, 0>> ELSE <<0, 0>>]
MCLayerOf == [d \in Data |-> IF d = c THEN 1 ELSE 0]
MCPolys == [d \in Data |-> IF d \in {b2, c} THEN 1 ELSE 2]
MCInner == [d \in Data |-> IF d \in {a, b} THEN {<<1, 2>>, <<2, 1>>} ELSE {}]
Portal(p, s, u) == [poly |-> p, side |-> s, units |-> u]
MCPortals == [d \in Data |->
    CASE d = a  -> {Portal(1, 0, {1, 2, 3}), Portal(2, 2, {11})}
      [] d = b  -> {Portal(1, 4, {1, 2}), Portal(2, 4, {3, 4})}
      [] d = b2 -> {Portal(1, 4, {2, 4})}
      [] d = c  -> {Portal(1, 6, {11}), Portal(1, 0, {4})}]
MCHash == [k \in {MCCellOf[d] : d \in Data} |-> 0]
Tight == [d \in Data |-> IF d \in {b2, c} THEN 1 ELSE 3]
MCTileRef == [slot : 1..MaxTiles, salt : 1..(SaltMod - 1)]
=============================================================================
