SPECIFICATION QueueSpec
CONSTANTS
    slow = slow
    quick = quick
    Slots = 2
    MaxIters = 3
    Requests = {slow, quick}
    Work <- MCWork
    End <- MCEnd
    Outdates <- MCOutdates
    HandleMod = 6
    NoRequest = NoRequest
INVARIANT
    PathAnswersRequest
