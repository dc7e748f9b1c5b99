------------------------------ MODULE Corridor ------------------------------
(***************************************************************************)
(* The path corridor of an agent of package detour_crowd: the polygons from *)
(* the agent to its target, patched whenever the agent or the target moves, *)
(* a short cut is seen or found, or polygons disappear from the mesh.       *)
(*                                                                          *)
(* A reference names a polygon's place in the mesh (tile slot and index)    *)
(* and the salt of the slot.  A corridor keeps references while tiles are   *)
(* rebuilt.  FindPathSliced compares salts (NavMesh.IsValidPolyRef); every  *)
(* other query looks at what is in the place now, and panics if that is     *)
(* nothing (GetTileAndPolyByRefUnsafe): here it is not called then.         *)
(*                                                                          *)
(* Positions are named by the polygon they lie in.  Which polygons a walk   *)
(* along the surface, a ray or a search crosses is geometry: any walk over  *)
(* linked polygons is possible.  Of the searches that others left in the    *)
(* query, or that took several Updates, only this is known: their paths are *)
(* made of references that the mesh gave out.  path is c.path[:c.npath].    *)
(***************************************************************************)
EXTENDS Integers, Sequences

CONSTANTS
    Place,       \* places of polygons in the mesh
    Poly,        \* references the mesh gives out (a bound): [place, salt]
    Null,        \* reference 0, the gap FixPathStart leaves
    Neis,        \* pairs of polygons that are linked when both are there
    Walks,       \* sequences of polygons that a walk or a search may report
    Leftovers,   \* paths that other searches may have left in the query
    MaxPath,     \* maxPath
    MaxVisited,  \* maxVisited
    Lookahead,   \* checkLookahead
    Changes      \* bound of the model: changes of the mesh

\* Consecutive polygons are linked; only a gap interrupts a corridor.
Linked(p) == \A i \in 1..(Len(p) - 1) :
                 <<p[i], p[i + 1]>> \in Neis \/ p[i] = Null \/ p[i + 1] = Null
\* Nothing goes into a polygon just to come back.
NoTrackback(p) == \A i \in 1..(Len(p) - 2) :
                     p[i] # p[i + 2] \/ p[i] = Null \/ p[i + 1] = Null
Simple(p) == \A i, j \in 1..Len(p) : p[i] = p[j] => i = j

ASSUME CorridorAssumption ==
    /\ Poly \subseteq [place : Place, salt : Nat] /\ Null \notin Poly
    /\ \A a, b \in Poly : <<a, b>> \in Neis => <<b, a>> \in Neis
    /\ Walks \subseteq Seq(Poly) /\ Leftovers \subseteq Walks
    /\ \A w \in Walks : Len(w) \in 1..MaxPath /\ Simple(w)
    /\ MaxPath \in Nat /\ MaxPath >= 3
    /\ MaxVisited \in 1..MaxPath /\ Lookahead \in Nat /\ Changes \in Nat

VARIABLES
    path,    \* path[:npath]
    pos,     \* the polygon of the agent's position
    target,  \* the polygon of the target
    salt,    \* salt[x]: of the tile slot of place x
    held,    \* places where there is a polygon
    open,    \* places whose polygon passes the filter
    changes, \* changes of the mesh so far
    cut,     \* history: the end of the path was cut off since target was set
    astray,  \* history: the start of the path was lost since pos was set
    misled   \* history: what a query reported of another mesh is in the path

mesh == <<salt, held, open, changes>>
vars == <<path, pos, target, mesh, cut, astray, misled>>

TypeOK ==
    /\ path \in Seq(Poly \cup {Null}) /\ Len(path) \in 1..MaxPath
    /\ pos \in Poly \cup {Null} /\ target \in Poly \cup {Null}
    /\ salt \in [Place -> Nat] /\ held \subseteq Place /\ open \subseteq Place
    /\ changes \in 0..Changes
    /\ cut \in BOOLEAN /\ astray \in BOOLEAN /\ misled \in BOOLEAN

\* NavMesh.IsValidPolyRef: the reference is that of the polygon there.
Current(r) == r # Null /\ r.place \in held /\ r.salt = salt[r.place]
\* GetTileAndPolyByRefUnsafe finds a polygon, this one.
Readable(r) == r # Null /\ r.place \in held
Seen(r) == [place |-> r.place, salt |-> salt[r.place]]
\* NavMeshQuery.IsValidPolyRef
Passes(r) == Readable(r) /\ r.place \in open
Safe == {r \in Poly : Current(r) /\ r.place \in open}
\* The mesh has given out all of these references.
Given(r) == r.salt <= salt[r.place]
Issued(walk) == \A i \in 1..Len(walk) : Given(walk[i])

----------------------------------------------------------------------------
(* Merging a walk into the corridor *)

On(p, walk) == \E j \in 1..Len(walk) : walk[j] = p
Meets(p, walk) == \E i \in 1..Len(p) : On(p[i], walk)

\* The last and the first place of the path that lies on the walk, and the
\* first place of a polygon on the walk.
Furthest(p, walk) ==
    {i \in 1..Len(p) : On(p[i], walk) /\ \A k \in (i + 1)..Len(p) : ~On(p[k], walk)}
Nearest(p, walk) ==
    {i \in 1..Len(p) : On(p[i], walk) /\ \A k \in 1..(i - 1) : ~On(p[k], walk)}
PlaceOn(walk, poly) ==
    {j \in 1..Len(walk) : walk[j] = poly /\ \A k \in 1..(j - 1) : walk[k] # poly}

Cap(n) == IF n > MaxPath THEN MaxPath ELSE n

StartMovedMut(p, walk, f, v) ==
    LET req == Len(walk) - v + 1 IN
    [i \in 1..Cap(req + Len(p) - f) |-> IF i <= req THEN walk[v + i - 1] ELSE p[f + i - req]]

\* The agent went along the walk: back along it to the furthest common
\* polygon f, at place v of the walk, and on along the path from there.
StartMoved(p, walk, f, v) ==
    LET req == Len(walk) - v + 1 IN
    [i \in 1..Cap(req + Len(p) - f) |->
        IF i <= req THEN walk[Len(walk) + 1 - i] ELSE p[f + i - req]]

EndMovedMut(p, walk, f, v) ==
    [i \in 1..Cap(f + Len(walk) - v) |-> IF i <= f THEN p[i] ELSE walk[v + i - f - 1]]

\* The target went along the walk: to the first common polygon, then along it.
EndMoved(p, walk, f, v) ==
    [i \in 1..Cap(f + Len(walk) - v) |-> IF i <= f THEN p[i] ELSE walk[v + i - f]]

\* A short cut: along the walk to the furthest common polygon, if that is not
\* where it starts.
StartShortcut(p, walk, f, v) ==
    IF v = 1 THEN p
    ELSE [i \in 1..Cap(v - 1 + Len(p) - f + 1) |->
             IF i < v THEN walk[i] ELSE p[f + i - v]]

MergedShortcut(walk, startsHere) ==
    /\ IF Meets(path, walk)
       THEN \E f \in Furthest(path, walk) : \E v \in PlaceOn(walk, path[f]) :
              /\ path' = StartShortcut(path, walk, f, v)
              /\ cut' = (cut \/ (v > 1 /\ v + Len(path) - f > MaxPath))
              /\ astray' = (astray \/ (v > 1 /\ ~startsHere))
       ELSE UNCHANGED <<path, cut, astray>>
    /\ UNCHANGED <<pos, target, mesh>>

----------------------------------------------------------------------------
(* Operations *)

\* A walk starts at the polygon that is in the place of its first reference,
\* goes over links to polygons that pass the filter, and visits none twice.
Walked(walk) ==
    /\ Readable(walk[1])
    /\ \A i \in 2..Len(walk) :
          walk[i] \in Safe /\ <<Seen(walk[i - 1]), walk[i]>> \in Neis
\* What MoveAlongSurface reports of a walk: its first MaxVisited polygons.
Visited(walk) == IF Len(walk) > MaxVisited THEN SubSeq(walk, 1, MaxVisited) ELSE walk
\* The walk may not be linked to the path, for another polygon was looked at.
Misled(walk) == misled \/ (Len(walk) > 1 /\ ~Current(walk[1]))

\* Agents that are nowhere on the mesh get reference 0.
Reset(poly) ==
    /\ path' = <<poly>> /\ pos' = poly /\ target' = poly
    /\ cut' = FALSE /\ astray' = FALSE /\ misled' = FALSE
    /\ UNCHANGED mesh

\* SetCorridor takes whatever it is given.
SetCorridor(t, walk) == path' = walk /\ target' = t

\* The quick search of updateMoveRequest, from the first polygon to the goal,
\* wherever the agent is.  If one of them is outdated it is refused, the error is
\* dropped, and the path of the search that is in the query becomes the corridor.
\* The target is clamped to the last polygon, unless that is the goal.
QuickPath(walk) ==
    /\ path[1] # Null
    /\ \/ Current(path[1]) /\ walk[1] = path[1] /\ Walked(walk)
       \/ /\ ~Current(path[1]) \/ \E goal \in Poly : Given(goal) /\ ~Current(goal)
          /\ walk \in Leftovers /\ Issued(walk)
    /\ SetCorridor(walk[Len(walk)], walk)
    /\ cut' = FALSE
    /\ astray' = (astray \/ walk[1] # path[1])
    /\ misled' = ~Linked(walk)
    /\ UNCHANGED <<pos, mesh>>

\* No path in time: the first polygon, with the agent's position as the target.
\* Agents without a target are reset to the same.
OnlyFirst ==
    /\ SetCorridor(pos, <<path[1]>>)
    /\ cut' = astray /\ misled' = FALSE
    /\ UNCHANGED <<pos, mesh, astray>>

\* MoveAlongSurface goes from the first polygon and puts the agent where the
\* walk ends, also when not all of it is reported.
MovePosition(walk) ==
    /\ walk[1] = path[1] /\ Walked(walk)
    /\ LET visited == Visited(walk) IN
       \E f \in Furthest(path, visited) : \E v \in PlaceOn(visited, path[f]) :
          /\ path' = StartMoved(path, visited, f, v)
          /\ cut' = (cut \/ Len(visited) - v + 1 + Len(path) - f > MaxPath)
    /\ pos' = walk[Len(walk)]
    /\ astray' = (Len(walk) > MaxVisited)
    /\ misled' = Misled(walk)
    /\ UNCHANGED <<target, mesh>>

\* The same from the last polygon, for the target.
MoveTargetPosition(walk) ==
    /\ walk[1] = path[Len(path)] /\ Walked(walk)
    /\ LET visited == Visited(walk) IN
       \E f \in Nearest(path, visited) : \E v \in PlaceOn(visited, path[f]) :
          /\ path' = EndMoved(path, visited, f, v)
          /\ cut' = (Len(walk) > MaxVisited \/ f + Len(visited) - v > MaxPath)
    /\ target' = walk[Len(walk)]
    /\ misled' = Misled(walk)
    /\ UNCHANGED <<pos, mesh, astray>>

\* A ray that reaches its goal across more than one polygon.
OptimizePathVisibility(walk) ==
    /\ walk[1] = path[1] /\ Walked(walk) /\ Len(walk) > 1
    /\ MergedShortcut(walk, TRUE)
    /\ misled' = Misled(walk)

\* A search from the first polygon to the last.  It is refused if one of them
\* is outdated; the error is dropped, and what the query still holds is taken.
OptimizePathTopology(walk) ==
    /\ Len(path) >= 3
    /\ IF Current(path[1]) /\ Current(path[Len(path)])
       THEN walk[1] = path[1] /\ Walked(walk)
       ELSE walk \in Leftovers /\ Issued(walk)
    /\ MergedShortcut(walk, walk[1] = path[1])
    /\ misled' = (misled \/ ~Linked(walk))

\* The agent's polygon is gone and it is put into another one, with a gap up
\* to the rest of the path.
FixPathStart(safe) ==
    /\ path' = IF Len(path) < 3 THEN <<safe, Null, path[Len(path)]>>
               ELSE [i \in 1..Len(path) |-> CASE i = 1 -> safe [] i = 2 -> Null
                                              [] OTHER -> path[i]]
    /\ pos' = safe
    /\ astray' = FALSE
    /\ UNCHANGED <<target, mesh, cut, misled>>

\* The path up to its first polygon that does not pass, or just the safe one;
\* the target moves to the end of what is left.
TrimInvalidPath(safe) ==
    /\ \E n \in 0..(Len(path) - 1) :
          /\ \A i \in 1..n : Passes(path[i])
          /\ ~Passes(path[n + 1]) /\ (path[n + 1] = Null \/ Readable(path[n + 1]))
          /\ path' = IF n = 0 THEN <<safe>> ELSE [i \in 1..n |-> path[i]]
          /\ pos' = IF n = 0 THEN safe ELSE pos
          /\ astray' = (n > 0 /\ astray)
          /\ target' = path'[Len(path')]
    /\ cut' = FALSE
    /\ UNCHANGED <<mesh, misled>>

\* c.IsValid(checkLookahead, ...)
IsValid == \A i \in 1..Len(path) : i <= Lookahead => Passes(path[i])

----------------------------------------------------------------------------
(* The mesh *)

MeshChange ==
    /\ changes < Changes /\ changes' = changes + 1
    /\ UNCHANGED <<path, pos, target, cut, astray, misled>>
Renewed(x) == [place |-> x, salt |-> salt[x] + 1]

\* RemoveTile, and AddTile into the free slot; a rebuilt tile does both.
RemoveTile(x) ==
    /\ x \in held /\ Renewed(x) \in Poly /\ MeshChange
    /\ held' = held \ {x} /\ salt' = [salt EXCEPT ![x] = @ + 1]
    /\ UNCHANGED open
AddTile(x) ==
    /\ x \notin held /\ MeshChange
    /\ held' = held \cup {x} /\ UNCHANGED <<salt, open>>
RebuildTile(x) ==
    /\ x \in held /\ Renewed(x) \in Poly /\ MeshChange
    /\ salt' = [salt EXCEPT ![x] = @ + 1] /\ UNCHANGED <<held, open>>
\* The flags of a polygon change so that the filter refuses it.
SetPolyFlags(x) ==
    /\ x \in open /\ MeshChange
    /\ open' = open \ {x} /\ UNCHANGED <<held, salt>>

Init ==
    /\ salt = [x \in Place |-> 0] /\ held = Place /\ open = Place /\ changes = 0
    /\ \E poly \in Safe : path = <<poly>> /\ pos = poly /\ target = poly
    /\ cut = FALSE /\ astray = FALSE /\ misled = FALSE

Next ==
    \/ \E poly \in Safe \cup {Null} : Reset(poly)
    \/ \E poly \in Safe : FixPathStart(poly) \/ TrimInvalidPath(poly)
    \/ OnlyFirst
    \/ \E walk \in Walks :
          \/ QuickPath(walk) \/ MovePosition(walk) \/ MoveTargetPosition(walk)
          \/ OptimizePathVisibility(walk) \/ OptimizePathTopology(walk)
    \/ \E x \in Place : RemoveTile(x) \/ AddTile(x) \/ RebuildTile(x) \/ SetPolyFlags(x)

Spec == Init /\ [][Next]_vars

----------------------------------------------------------------------------
(* Properties *)

\* A corridor stays a path however it is patched: its polygons are linked one
\* to the next, up to the gap of FixPathStart, and none is entered only to be
\* left for the one before (the three mergeCorridor functions), unless a query
\* took an outdated reference for the polygon in its place, or a search reports
\* polygons of the mesh before and after a change.
CorridorIsPath == ~misled => Linked(path) /\ NoTrackback(path)

\* The corridor starts where the agent is, unless its walk was too long to be
\* reported or a search that was refused brought another's path (MovePosition,
\* OptimizePathTopology, updateMoveRequest).  New paths are searched for from the
\* corridor's first polygon, not from the agent: that must be the same.
StartsAtAgent == ~astray => path[1] = pos

\* The corridor ends where the target is, unless it grew too long and its end
\* was cut off (MovePosition, MoveTargetPosition, TrimInvalidPath).
EndsAtTarget == ~cut => path[Len(path)] = target

\* "IsValid checks if the current corridor path's polygon references remain
\* valid": what it accepts are references of the polygons that are there.
ValidMeansCurrent ==
    IsValid => \A i \in 1..Len(path) : i <= Lookahead => Current(path[i])
=============================================================================
