----------------------------- MODULE MeshEdges -----------------------------
(***************************************************************************)
(* The edges of the polygons of a mesh, and which polygon lies beyond each. *)
(* An edge is <<p, k>>: the one from corner k of polygon p to the next.     *)
(***************************************************************************)
EXTENDS Integers, FiniteSets, Sequences

NullIdx == 65535       \* meshNullIdx
Portal(side) == 32768 + side

\* Corner i of a ring, counted on beyond its end.
Place(p, i) == p[((i - 1) % Len(p)) + 1]

\* buildMeshAdjacency.  The edges from vertex a to vertex b, in the order of
\* the loops.
Along(polys, a, b) ==
    UNION {{<<p, k>> : k \in {n \in DOMAIN polys[p].verts :
                                /\ polys[p].verts[n] = a /\ Place(polys[p].verts, n + 1) = b}} :
           p \in DOMAIN polys}
Precedes(e, f) == e[1] < f[1] \/ (e[1] = f[1] /\ e[2] < f[2])
First(edges) == CHOOSE e \in edges : \A f \in edges \ {e} : Precedes(e, f)
Newest(edges) == CHOOSE e \in edges : \A f \in edges \ {e} : Precedes(f, e)

\* An edge that runs back claims the newest of the open ones; one of the same
\* polygon stays open.
ClaimedMut(s) ==
    LET e == First(s.left)
        n == Newest(s.open) IN
    IF s.open = {} \/ n[1] = e[1] THEN [s EXCEPT !.left = @ \ {e}]
    ELSE [open |-> s.open \ {n}, left |-> s.left \ {e}, met |-> s.met \cup {<<n, <<e[1], 1>>>>}]
Claimed(s) ==
    LET e == First(s.left)
        n == Newest(s.open) IN
    IF s.open = {} \/ n[1] = e[1] THEN [s EXCEPT !.left = @ \ {e}]
    ELSE [open |-> s.open \ {n}, left |-> s.left \ {e}, met |-> s.met \cup {<<n, e>>}]

\* The pairs of edges that meet between a and b, the one from a to b first.
EdgePairs(polys, a, b) ==
    LET backs == Along(polys, b, a)
        After[k \in 0..Cardinality(backs)] ==
            IF k = 0 THEN [open |-> Along(polys, a, b), left |-> backs, met |-> {}]
            ELSE Claimed(After[k - 1])
    IN After[Cardinality(backs)].met

\* The edges that an edge meets, of which there is one at most.
Opposed(pairs, e) == {m[2] : m \in {x \in pairs : x[1] = e}} \cup {m[1] : m \in {x \in pairs : x[2] = e}}
OppositeEdges(polys, e) ==
    LET ring == polys[e[1]].verts
        a == ring[e[2]]
        b == Place(ring, e[2] + 1) IN
    IF a = b THEN {} ELSE Opposed(IF a < b THEN EdgePairs(polys, a, b) ELSE EdgePairs(polys, b, a), e)

\* The polygon, counted from 0, beyond each edge of each polygon.
Adjacency(polys) ==
    [p \in DOMAIN polys |-> [k \in DOMAIN polys[p].verts |->
        LET partners == OppositeEdges(polys, <<p, k>>) IN
        IF partners = {} THEN NullIdx ELSE (CHOOSE f \in partners : TRUE)[1] - 1]]

\* Open edges along the side of a tile become portals.
Portals(mesh, nei, w, h) ==
    [p \in DOMAIN nei |-> [k \in DOMAIN nei[p] |->
        LET ring == mesh.polys[p].verts
            a == mesh.verts[ring[k] + 1]
            b == mesh.verts[Place(ring, k + 1) + 1] IN
        IF nei[p][k] # NullIdx THEN nei[p][k]
        ELSE IF a.x = 0 /\ b.x = 0 THEN Portal(0)
        ELSE IF a.z = h /\ b.z = h THEN Portal(1)
        ELSE IF a.x = w /\ b.x = w THEN Portal(2)
        ELSE IF a.z = 0 /\ b.z = 0 THEN Portal(3)
        ELSE NullIdx]]

\* In a merged mesh the portals of the tiles stay where no polygon is beyond.
StillOpen(inner, outer) ==
    [p \in DOMAIN inner |-> [k \in DOMAIN inner[p] |->
        IF inner[p][k] = NullIdx THEN outer[p][k] ELSE inner[p][k]]]

---------------------------------------------------------------------------
\* A polygon beyond an edge has that edge too, runs along it the other way and
\* leads back.
Mutually(polys, beyond) ==
    \A p \in DOMAIN polys : \A k \in DOMAIN beyond[p] :
        LET q == beyond[p][k] + 1 IN
        q \in DOMAIN polys =>
            \E m \in DOMAIN beyond[q] :
                /\ beyond[q][m] = p - 1
                /\ polys[q].verts[m] = Place(polys[p].verts, k + 1)
                /\ Place(polys[q].verts, m + 1) = polys[p].verts[k]
=============================================================================
