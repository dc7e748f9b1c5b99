SPECIFICATION Spec
CONSTANTS
    Poly = {1, 2, 3, 4, 5, 6}
    Graphs <- MCGraphs
    Links <- MCLinks
    Passes = {1, 2, 3, 4, 5}
    Area <- MCArea
    Start = 1
    End = 5
    StartPos = 1
    EndPos = 4
    PoolSizes = {3, 8}
    Budgets = {1, 3}
    MaxPath = 8
    HScale = 9
INVARIANTS
    OpenListExact
    PathsLeadBack
    BestIsNearest
    FindsWhatIsThere
    SlicingIrrelevant
PROPERTY
    ReopenedCheaper
