SPECIFICATION FairServerSpec
CONSTANTS
    p1 = p1
    i1 = i1
    i2 = i2
    NoPod = NoPod
    NoId = NoId
    NoInstance = NoInstance
    ApiErrors = FALSE
    Pods = {p1}
    Monitored = {p1}
    Ids = {i1, i2}
    Workers = {w1}
    IdsOf <- PodIds
    Missed = {}
    MaxPodChanges = 0
    Handlers = {h1}
    Boot = boot
    Readers = {}
    Requests = {"register"}
    Payloads <- Up
    MaxRequests = 1
    MaxForeign = 1
    MaxRestarts = 1
    Objects <- Numbers
    StartEntries <- CustomOrPod
PROPERTIES MemorySettles
CHECK_DEADLOCK FALSE
