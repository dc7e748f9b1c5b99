SPECIFICATION FairSpec
CONSTANTS
    near = near
    far = far
    slow = slow
    island = island
    Slots = 2
    MaxIters = 5
    Requests <- MCRequests
    Work <- MCWork
    End <- MCEnd
    Outdates <- MCOutdates
    HandleMod = 6
    NoRequest = NoRequest
    MaxAgents = 1
    Goals = {slow}
    QuickIters = 1
    TopoIters = 2
    Calls = 2
    Changes = 0
    NoGoal = NoGoal
PROPERTY
    RequestsDecided
