SPECIFICATION Spec
CONSTANTS
    a = a
    b = b
    none = none
    one = one
    both = both
    block = block
    Cells = {a, b}
    Layers = {0}
    MaxTiles = 2
    TileSaltMod = 3
    MaxObstacles = 2
    ObSaltMod = 4
    MaxRequests = 2
    MaxUpdate = 4
    MaxTouched = 2
    Shapes = {both, block}
    Hits <- MCHits
    Fills <- MCFills
    Faults = {"build"}
    TileSaltBound = 0
    ObSaltBound = 2
    NoLoc = NoLoc
    NoMesh = NoMesh
INVARIANTS
    TypeOK
    ObstacleSlotsExact
    PendingIsQueued
    RemovedOnRequest
    MeshReflectsObstacles
    NoGhostMarks
