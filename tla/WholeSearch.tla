----------------------------- MODULE WholeSearch -----------------------------
(***************************************************************************)
(* FindPath of detour.NavMeshQuery, which does the rounds of PathSearch in  *)
(* one loop.  The loop has a search and whether the goal has been taken.    *)
(***************************************************************************)
EXTENDS PathSearch

Begun == [search |-> Started, goal |-> FALSE]

\* The loop ends when the goal is taken or the open list is empty.
Ended(loop) == loop.goal \/ loop.search.open = <<>>

Pass(pr, loop) ==
    IF Ended(loop) THEN loop
    ELSE [search |-> Round(pr, loop.search), goal |-> AtGoal(loop.search)]

\* FindPath after n passes, or fewer if the loop has ended.
FindPath(pr, n) ==
    LET After[k \in 0..n] == IF k = 0 THEN Begun ELSE Pass(pr, After[k - 1])
    IN After[n]

\* Cutting the search into slices changes nothing: when it has succeeded,
\* FindPath ends with as many rounds and returns the same path (FindPath,
\* UpdateSlicedPath).
SlicingIrrelevant ==
    Finished /\ err = "nil" =>
        LET whole == FindPath(problem, rounds) IN
        /\ Ended(whole)
        /\ GetPathToNode(whole.search, whole.search.best) = GetPathToNode(search, search.best)
=============================================================================
