--------------------------- MODULE TileDirectory ---------------------------
(***************************************************************************)
(* What a navigation mesh promises about its tiles: at most one tile per    *)
(* place; a reference belongs to one tile from the moment it is given out   *)
(* and is not given to another one, unless the client asks for it to be     *)
(* restored; and polygons are linked exactly as the tiles present demand,   *)
(* whatever tiles came and went before.                                     *)
(***************************************************************************)
EXTENDS TileData

CONSTANT Capacity   \* MaxTiles

VARIABLES present,  \* the tiles in the mesh, [ref, data]
          used,     \* every reference given out so far
          graph     \* the links between polygons

Place(ref, d) ==
    /\ Cardinality(present) < Capacity
    /\ \A t \in present : LocOf(t.data) # LocOf(d)
    /\ present' = present \cup {[ref |-> ref, data |-> d]}
    /\ used' = used \cup {ref}
    /\ graph' = Graph(present')

Add(ref, d) == ref \notin used /\ Place(ref, d)

Restore(ref, d) ==
    /\ ref \in used
    /\ \A t \in present : t.ref # ref
    /\ Place(ref, d)

Remove(t) ==
    /\ t \in present
    /\ present' = present \ {t}
    /\ graph' = Graph(present')
    /\ UNCHANGED used

Init == present = {} /\ used = {} /\ graph = {}

Next == \/ \E ref \in TileRef, d \in Data : Add(ref, d) \/ Restore(ref, d)
        \/ \E t \in present : Remove(t)

Spec == Init /\ [][Next]_<<present, used, graph>>
=============================================================================
