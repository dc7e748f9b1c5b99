------------------------------ MODULE OpenList ------------------------------
(***************************************************************************)
(* The NodeQueue of package detour: a binary heap of nodes in an array,     *)
(* ordered by the nodes' Total, here key[n].  Positions count from 1, so    *)
(* the parent of i is i \div 2; each of the code's loops moves entries      *)
(* along one path of the tree, which is a set of positions.                 *)
(***************************************************************************)
EXTENDS Integers, Sequences, FiniteSetsExt

\* The positions above i: the fewest that hold its parent, and with a position
\* that has a parent this one too.
Above(i) ==
    LET parent == i \div 2 IN
    {a \in 1..parent : \A S \in SUBSET (1..parent) :
        parent \in S /\ (\A b \in S \ {1} : b \div 2 \in S) => a \in S}

\* The ancestors of position i that bubbleUp moves down to make room for n.
Sinking(key, h, i, n) ==
    LET above == Above(i) IN
    {a \in above : \A b \in above : b >= a => key[h[b]] > key[n]}

BubbleUp(key, h, i, n) ==
    LET moving == {i} \cup Sinking(key, h, i, n) IN
    [p \in DOMAIN h |-> IF p = Min(moving) THEN n
                        ELSE IF p \in moving THEN h[p \div 2] ELSE h[p]]

\* The child that takes the place of its parent, for a p with children.
ChildMut(key, h, p) == 2 * p
Child(key, h, p) ==
    IF 2 * p + 1 <= Len(h) /\ key[h[2 * p]] > key[h[2 * p + 1]] THEN 2 * p + 1 ELSE 2 * p

\* The way down from the top by the children that take their parents' places.
Hole(key, h) ==
    {p \in DOMAIN h : \A c \in ({p} \cup Above(p)) \ {1} : c = Child(key, h, c \div 2)}

\* trickleDown(0, n): the hole at the top sinks to a leaf, and n rises from it.
TrickleDown(key, h, n) ==
    LET hole == Hole(key, h)
        leaf == Max(hole)
        raised == [p \in DOMAIN h |-> IF p \in hole \ {leaf} THEN h[Child(key, h, p)] ELSE h[p]] IN
    BubbleUp(key, raised, leaf, n)

Push(key, h, n) == BubbleUp(key, Append(h, n), Len(h) + 1, n)

\* The heap without its top.
Pop(key, h) == LET rest == SubSeq(h, 1, Len(h) - 1) IN
               IF rest = <<>> THEN rest ELSE TrickleDown(key, rest, h[Len(h)])

\* The entry of n, whose key has become smaller, finds its place again.
Modify(key, h, n) == BubbleUp(key, h, CHOOSE i \in DOMAIN h : h[i] = n, n)

HeapOrdered(key, h) == \A i \in 2..Len(h) : key[h[i \div 2]] <= key[h[i]]
=============================================================================
