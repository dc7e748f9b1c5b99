SPECIFICATION FairSpec
CONSTANTS
    near = near
    far = far
    slow = slow
    island = island
    Slots = 2
    MaxIters = 5
    Requests <- MCRequests
    Work <- MCWork
    End <- MCEnd
    Outdates <- MCOutdates
    HandleMod = 5
    NoRequest = NoRequest
    MaxAgents = 2
    Goals = {near, far, slow, island}
    QuickIters = 1
    TopoIters = 2
    Calls = 4
    Changes = 1
    NoGoal = NoGoal
INVARIANTS
    FollowsOwnPath
    WaitsForOwnRequest
    NobodyForgotten
PROPERTY
    SlotsComeBack
