SPECIFICATION Spec
CONSTANTS
    p1 = p1
    p2 = p2
    i1 = i1
    i2 = i2
    NoPod = NoPod
    NoId = NoId
    NoInstance = NoInstance
    ApiErrors = TRUE
    Pods = {p1, p2}
    Monitored = {p1, p2}
    Ids = {i1, i2}
    Workers = {w1, w2}
    IdsOf <- SharedIds
    Missed = {}
    MaxPodChanges = 4
SYMMETRY WorkerSymmetry
INVARIANTS TypeOK QueueOK KeyFollowsPod InstanceIsOwned StoppedIsDrained
PROPERTY RemovedEntryStaysRemoved
CHECK_DEADLOCK FALSE
