SPECIFICATION Spec
CONSTANTS
    Place = {1, 2, 3, 4}
    Null = Null
    Poly <- MCPoly
    Neis <- MCNeis
    Walks <- MCWalks
    Leftovers <- MCLeftovers
    MaxPath = 4
    MaxVisited = 3
    Lookahead = 3
    Changes = 2
INVARIANTS
    ValidMeansCurrent
