SPECIFICATION FairSpec
CONSTANTS
    p1 = p1
    p2 = p2
    i1 = i1
    i2 = i2
    NoPod = NoPod
    NoId = NoId
    NoInstance = NoInstance
    ApiErrors = TRUE
    Pods = {p1, p2}
    Monitored = {p1, p2}
    Ids = {i1, i2}
    Workers = {w1, w2}
    IdsOf <- OwnIds
    Missed = {p2}
    MaxPodChanges = 3
INVARIANT RegisteredIsServed
PROPERTIES KeyedWorkSpec AnnouncedIsHandled RegistryConverges WorkersStop
CHECK_DEADLOCK FALSE
