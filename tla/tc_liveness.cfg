SPECIFICATION FairSpec
CONSTANTS
    a = a
    b = b
    none = none
    one = one
    both = both
    block = block
    Cells = {a, b}
    Layers = {0}
    MaxTiles = 2
    TileSaltMod = 3
    MaxObstacles = 2
    ObSaltMod = 3
    MaxRequests = 1
    MaxUpdate = 4
    MaxTouched = 2
    Shapes = {block}
    Hits <- MCHits
    Fills <- MCFills
    Faults = {"add"}
    TileSaltBound = 1
    ObSaltBound = 1
    NoLoc = NoLoc
    NoMesh = NoMesh
INVARIANTS
    TileSlotsExact
    MeshReflectsObstacles
PROPERTIES
    RequestsHandled
    RemovalCompletes
