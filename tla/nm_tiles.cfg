SPECIFICATION Spec
CONSTANTS
    a = a
    b = b
    b2 = b2
    c = c
    Data = {a, b, b2, c}
    TileRef <- MCTileRef
    CellOf <- MCCellOf
    LayerOf <- MCLayerOf
    Polys <- MCPolys
    Inner <- MCInner
    Portals <- MCPortals
    MaxCon = 4
    Buckets = {0}
    Hash <- MCHash
    MaxTiles = 3
    SaltMod = 8
    MaxLinks <- Tight
    OffMesh = {}
    AnyLastRef = FALSE
    SaltBound = 2
    NoRef = NoRef
    NoData = NoData
INVARIANTS
    SlotsExact
    PoolsBalance
    StaleRefsRefused
PROPERTY
    IsDirectory
\* The bound on salts ends every behaviour.
CHECK_DEADLOCK FALSE
