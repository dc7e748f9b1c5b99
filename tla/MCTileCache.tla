---------------------------- MODULE MCTileCache ----------------------------
(* Instances of TileCache for TLC: two cells of one layer, obstacles that   *)
(* touch no tile, one tile or both, and one that leaves no polygon of a.    *)
EXTENDS TileCache
CONSTANTS a, b, none, one, both, block
Affected(s) == CASE s = none -> {} [] s = one -> {a} [] OTHER -> {a, b}
MCHits == [s \in Shapes |-> (Affected(s) \X {0}) \cap Loc]
MCFills == [s \in Shapes |-> IF s = block THEN {<<a, 0>>} ELSE {}]
=============================================================================
