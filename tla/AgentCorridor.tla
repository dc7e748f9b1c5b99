--------------------------- MODULE AgentCorridor ---------------------------
(***************************************************************************)
(* The corridor of an agent whose path arrives in two pieces: a quick search *)
(* gives it a start (QuickPath), and the path queue answers later with a path *)
(* from the end of that, which updateMoveRequest appends to the corridor as  *)
(* it is by then.                                                            *)
(***************************************************************************)
EXTENDS Corridor, SequencesExt

\* "Remove trackbacks": wherever the path comes back to the polygon before the
\* last one, both steps go, and what is left is looked at again.
Stepped(p, poly) == IF Len(p) >= 2 /\ p[Len(p) - 1] = poly THEN Front(p) ELSE Append(p, poly)
UntrackedMut(p) == p
Untracked(p) ==
    LET Kept[k \in 0..Len(p)] == IF k = 0 THEN <<>> ELSE Stepped(Kept[k - 1], p[k]) IN
    Kept[Len(p)]

\* The old path without its last polygon, then as much of the new one as fits.
Appended(old, res) ==
    IF Len(old) = 1 THEN res
    ELSE Untracked(Front(old) \o SubSeq(res, 1, Cap(Len(old) - 1 + Len(res)) - Len(old) + 1))

\* The answer, found on the mesh as it was at one time or several, is taken if it
\* starts where the corridor ends; the target is clamped to the end of the whole,
\* unless that is the goal, which may be any polygon.
TakeResult(res) ==
    LET whole == Appended(path, res) IN
    /\ Issued(res)
    /\ res[1] = Last(path)
    /\ SetCorridor(Last(whole), whole)
    /\ cut' = FALSE
    /\ misled' = ((misled /\ Len(path) > 1) \/ ~Linked(res))
    /\ UNCHANGED <<pos, mesh, astray>>

AgentNext == Next \/ \E res \in Walks : TakeResult(res)

AgentSpec == Init /\ [][AgentNext]_vars
=============================================================================
