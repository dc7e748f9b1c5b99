----------------------------- MODULE MCCorridor -----------------------------
(* A ring of four polygons, for TLC, and every walk through them.  Place 3   *)
(* may be rebuilt: then its polygon has lost the link to 4 and has one to 1. *)
EXTENDS AgentCorridor

Ref(x, n) == [place |-> x, salt |-> n]
MCPoly == {Ref(x, 0) : x \in Place} \cup {Ref(3, 1)}
Ring == {{1, 2}, {2, 3}, {3, 4}, {4, 1}}
Rebuilt == {{2, 3}, {3, 1}}
MCNeis == {e \in MCPoly \X MCPoly :
    {e[1].place, e[2].place} \in
        IF Ref(3, 1) \in {e[1], e[2]} THEN Rebuilt ELSE Ring}
Beside(p) == \A i \in 1..(Len(p) - 1) :
    {p[i].place, p[i + 1].place} \in Ring \cup Rebuilt
MCWalks == {w \in UNION {[1..n -> MCPoly] : n \in 1..MaxPath} : Simple(w) /\ Beside(w)}
MCLeftovers == {w \in MCWalks : Linked(w) /\ Len(w) = 3}
=============================================================================
