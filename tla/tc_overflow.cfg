SPECIFICATION Spec
CONSTANTS
    a = a
    b = b
    none = none
    one = one
    both = both
    block = block
    Cells = {a, b}
    Layers = {0}
    MaxTiles = 2
    TileSaltMod = 3
    MaxObstacles = 2
    ObSaltMod = 3
    MaxRequests = 2
    MaxUpdate = 1
    MaxTouched = 2
    Shapes = {both}
    Hits <- MCHits
    Fills <- MCFills
    Faults = {}
    TileSaltBound = 0
    ObSaltBound = 1
    NoLoc = NoLoc
    NoMesh = NoMesh
INVARIANT
    UpToDateMeansRebuilt
