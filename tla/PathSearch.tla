----------------------------- MODULE PathSearch -----------------------------
(***************************************************************************)
(* The A* search of detour.NavMeshQuery, in slices: FindPathSliced begins   *)
(* one, each UpdateSlicedPath does so many rounds, and the path is read     *)
(* back from the best node.                                                 *)
(*                                                                          *)
(* A problem is a mesh, with a start and an end in it.  Positions are       *)
(* points of a line; a node keeps the midpoint of the edge through which it *)
(* was first reached.  A node of the pool is named by its index plus one,   *)
(* as in Pidx; hash chains only serve to find it.                           *)
(***************************************************************************)
EXTENDS OpenList, SequencesExt

CONSTANTS
    Poly,      \* polygon references
    Graphs,    \* the meshes to search
    Links(_, _), \* Links(g, p): the links of p in g, a sequence of [to, side, mid]
    Passes,    \* the polygons that pass the filter
    Area,      \* Area[p]: the filter's AreaCost for p, in units of which
    HScale,    \*   H_SCALE has HScale
    Start, End, StartPos, EndPos,
    PoolSizes, \* values of maxNodes
    Budgets,   \* values of maxIter
    MaxPath    \* length of the caller's path array

ASSUME SearchAssumption ==
    /\ \A g \in Graphs, p \in Poly : Links(g, p) \in Seq([to : Poly, side : 0..3, mid : Int])
    /\ Budgets \subseteq Nat \ {0} /\ MaxPath \in Nat \ {0}
    /\ HScale \in Nat
    /\ PoolSizes \subseteq Nat \ {0}
    /\ Start \in Poly /\ End \in Poly /\ Passes \subseteq Poly
    /\ StartPos \in Int /\ EndPos \in Int
    /\ Area \in [Poly -> Nat \ {0}]

VARIABLES
    problem,  \* the mesh and the size of the query's node pool
    search,   \* node pool, open list, LastBestNode and its cost; `short' is
              \*   history: the pool was exhausted at some time
    err,      \* QueryData.Err; "none" before FindPathSliced
    left,     \* rounds left to the running UpdateSlicedPath, or NoCall
    rounds    \* history: the rounds done since FindPathSliced

vars == <<problem, search, err, left, rounds>>
NoCall == -1

Dist(x, y) == IF x >= y THEN x - y ELSE y - x
Cost(x, y, poly) == Dist(x, y) * Area[poly]
Heuristic(poly, x) == IF poly = End THEN 0 ELSE HScale * Dist(x, EndPos)

Totals(nodes) == [i \in DOMAIN nodes |-> nodes[i].total]

Started ==
    LET h == HScale * Dist(StartPos, EndPos) IN
    [nodes |-> <<[id |-> Start, state |-> 0, pos |-> StartPos, pidx |-> 0,
                  cost |-> 0, total |-> h, flag |-> "open"]>>,
     open |-> <<1>>, best |-> 1, bestCost |-> h, short |-> FALSE]

----------------------------------------------------------------------------
(* One round *)

\* The node of a polygon, by the side it is entered from; 0 if there is none.
FindNode(nodes, id, state) ==
    LET found == {i \in DOMAIN nodes : nodes[i].id = id /\ nodes[i].state = state} IN
    IF found = {} THEN 0 ELSE Min(found)

Room(pr, nodes) == Len(nodes) < pr.maxNodes

\* A node in either list is only taken up again at a smaller total.
ImprovesMut(node, total) == node.flag = "new" \/ total <= node.total
ForgetfulMut(node, total) == node.flag # "open" \/ total < node.total
Improves(node, total) == node.flag = "new" \/ total < node.total

NearerMut(heuristic, cost) == heuristic > cost
Nearer(heuristic, cost) == heuristic < cost

\* The polygons a node expands to: not its parent's, and only those that pass.
SkippedMut(s, b, link) == s.nodes[b].pidx # 0 /\ link.to = s.nodes[s.nodes[b].pidx].id
Skipped(s, b, link) ==
    \/ s.nodes[b].pidx # 0 /\ link.to = s.nodes[s.nodes[b].pidx].id
    \/ link.to \notin Passes

\* Following one link from node b.
Relax(pr, s, b, link) ==
    LET from == s.nodes[b]
        found == FindNode(s.nodes, link.to, link.side)
        i == IF found # 0 THEN found ELSE Len(s.nodes) + 1
        node == IF found # 0 THEN s.nodes[i]
                ELSE [id |-> link.to, state |-> link.side, pos |-> link.mid, pidx |-> 0,
                      cost |-> 0, total |-> 0, flag |-> "new"]
        last == IF link.to = End THEN Cost(node.pos, EndPos, link.to) ELSE 0
        cost == from.cost + Cost(from.pos, node.pos, from.id) + last
        heuristic == Heuristic(link.to, node.pos)
        new == [node EXCEPT !.pidx = b, !.cost = cost, !.total = cost + heuristic,
                            !.flag = "open"]
        nodes == IF found # 0 THEN [s.nodes EXCEPT ![i] = new] ELSE Append(s.nodes, new)
        key == Totals(nodes) IN
    IF Skipped(s, b, link) THEN s
    ELSE IF found = 0 /\ ~Room(pr, s.nodes) THEN [s EXCEPT !.short = TRUE]
    ELSE IF ~Improves(node, cost + heuristic) THEN s
    ELSE [s EXCEPT !.nodes = nodes,
                   !.open = IF node.flag = "open" THEN Modify(key, s.open, i)
                            ELSE Push(key, s.open, i),
                   !.best = IF Nearer(heuristic, s.bestCost) THEN i ELSE @,
                   !.bestCost = IF Nearer(heuristic, s.bestCost) THEN heuristic ELSE @]

Popped(s) == [s EXCEPT !.open = Pop(Totals(s.nodes), s.open),
                       !.nodes[Head(s.open)].flag = "closed"]
AtGoal(s) == s.nodes[Head(s.open)].id = End

\* Following the links one after the other.
Expand(pr, s, b, links) ==
    LET After[k \in 0..Len(links)] ==
            IF k = 0 THEN s ELSE Relax(pr, After[k - 1], b, links[k])
    IN After[Len(links)]

\* Taking the best node from the open list: the goal, or a node to expand.
Round(pr, s) ==
    LET b == Head(s.open) IN
    IF AtGoal(s) THEN [Popped(s) EXCEPT !.best = b]
    ELSE Expand(pr, Popped(s), b, Links(pr.graph, s.nodes[b].id))

----------------------------------------------------------------------------
(* Paths *)

\* The nodes from i up, each the parent of the one before.
PathIndices(s, i) ==
    LET Up[k \in 0..Len(s.nodes)] ==
            IF k = 0 THEN i ELSE IF Up[k - 1] = 0 THEN 0 ELSE s.nodes[Up[k - 1]].pidx
        steps == {k \in 0..Len(s.nodes) : Up[k] # 0}
    IN [k \in 1..(Max(steps) + 1) |-> Up[k - 1]]

\* getPathToNode: from the node up, as many as fit, and turned around.
GetPathToNode(s, i) ==
    LET up == PathIndices(s, i)
        n == Min({Len(up), MaxPath}) IN
    [k \in 1..n |-> s.nodes[up[n + 1 - k]].id]

----------------------------------------------------------------------------

Init ==
    /\ problem \in [graph : Graphs, maxNodes : PoolSizes]
    /\ search = [nodes |-> <<>>, open |-> <<>>, best |-> 0, bestCost |-> 0, short |-> FALSE]
    /\ err = "none" /\ left = NoCall /\ rounds = 0

\* Also while another search is in progress, which is forgotten.
FindPathSliced ==
    /\ left = NoCall
    /\ search' = Started
    /\ err' = "busy"
    /\ rounds' = 0
    /\ UNCHANGED <<problem, left>>

UpdateSlicedPath(maxIter) ==
    /\ err = "busy" /\ left = NoCall
    /\ left' = maxIter
    /\ UNCHANGED <<problem, search, err, rounds>>

\* The goal ends the call; a full pool is an error, but the call goes on.
Iterate ==
    /\ left > 0 /\ search.open # <<>>
    /\ search' = Round(problem, search)
    /\ err' = IF AtGoal(search) THEN "nil"
              ELSE IF search'.short THEN "nodes" ELSE err
    /\ left' = IF AtGoal(search) THEN NoCall ELSE left - 1
    /\ rounds' = rounds + 1
    /\ UNCHANGED problem

DrainedMut(s) == TRUE
Drained(s) == s.open = <<>>

\* The end of a call that has not met the goal.
Return ==
    /\ left # NoCall
    /\ left = 0 \/ search.open = <<>>
    /\ err' = IF Drained(search) THEN "nil" ELSE err
    /\ left' = NoCall
    /\ UNCHANGED <<problem, search, rounds>>

Next == FindPathSliced \/ (\E n \in Budgets : UpdateSlicedPath(n)) \/ Iterate \/ Return

Spec == Init /\ [][Next]_vars

----------------------------------------------------------------------------
(* Properties *)

NodeIndex == 1..problem.maxNodes
Node == [id : Poly, state : 0..3, pos : Int, pidx : {0} \cup NodeIndex,
         cost : Nat, total : Nat, flag : {"open", "closed"}]

\* The pool never outgrows maxNodes, and every node is in one of the two lists.
TypeOK ==
    /\ problem.maxNodes \in PoolSizes
    /\ Len(search.nodes) <= problem.maxNodes
    /\ \A i \in DOMAIN search.nodes : search.nodes[i] \in Node
    /\ search.open \in Seq(DOMAIN search.nodes)
    /\ search.best \in 0..Len(search.nodes)
    /\ err \in {"none", "busy", "nil", "nodes"}
    /\ left \in Nat \cup {NoCall}
    /\ rounds \in Nat

\* The open list is a heap of exactly the nodes flagged open, each once, while
\* totals change under it (Push, Pop, Modify).
OpenListExact ==
    /\ HeapOrdered(Totals(search.nodes), search.open)
    /\ IsInjective(search.open)
    /\ Range(search.open) = {i \in DOMAIN search.nodes : search.nodes[i].flag = "open"}

\* However often nodes get another parent, the parents of each node lead to
\* the start along links that pass the filter, and no node costs less than the
\* way through its parent: getPathToNode ends, with a path (UpdateSlicedPath).
PathsLeadBack ==
    \A i \in DOMAIN search.nodes :
        LET node == search.nodes[i] IN
        /\ Last(PathIndices(search, i)) = 1
        /\ node.pidx = 0 <=> i = 1
        /\ i # 1 =>
            LET parent == search.nodes[node.pidx] IN
            /\ \E l \in Range(Links(problem.graph, parent.id)) :
                  l.to = node.id /\ l.side = node.state
            /\ node.id \in Passes
            /\ node.cost >= parent.cost + Cost(parent.pos, node.pos, parent.id)

\* How near node i is to the end, as LastBestNodeCost measures it.
Nearness(s, i) == IF i = 1 THEN HScale * Dist(StartPos, EndPos)
                  ELSE Heuristic(s.nodes[i].id, s.nodes[i].pos)

\* The best node is one that is nearest to the end among all that were ever
\* reached, whatever became of them since: a partial path leads as near as it
\* can (UpdateSlicedPath).
BestIsNearest ==
    \A i \in DOMAIN search.nodes : Nearness(search, search.best) <= Nearness(search, i)

\* Polygons that links which pass the filter lead to from the start.
Reachable ==
    {p \in Poly : \A S \in SUBSET Poly :
        /\ Start \in S
        /\ \A q \in S : \A l \in Range(Links(problem.graph, q)) : l.to \in Passes => l.to \in S
        => p \in S}

\* The search is over.
Finished == left = NoCall /\ err \in {"nil", "nodes"}

\* A search that was never short of nodes finds the end if and only if links
\* lead there (UpdateSlicedPath).
FindsWhatIsThere ==
    Finished /\ err = "nil" /\ ~search.short =>
        (search.nodes[search.best].id = End <=> End \in Reachable)

\* No node ever gets dearer, and one that was closed is opened again only if
\* it gets cheaper: so every search comes to an end (UpdateSlicedPath).
ReopenedCheaper ==
    [][~FindPathSliced => \A i \in DOMAIN search.nodes :
          LET old == search.nodes[i]
              new == search'.nodes[i] IN
          /\ new.total <= old.total
          /\ old.flag = "closed" /\ new.flag = "open" => new.total < old.total]_vars
=============================================================================
