SPECIFICATION FairServerSpec
CONSTANTS
    p1 = p1
    i1 = i1
    i2 = i2
    NoPod = NoPod
    NoId = NoId
    NoInstance = NoInstance
    ApiErrors = TRUE
    Pods = {p1}
    Monitored = {p1}
    Ids = {i1, i2}
    Workers = {w1}
    IdsOf <- PodIds
    Missed = {}
    MaxPodChanges = 1
    Handlers = {h1}
    Boot = boot
    Readers = {r1}
    Requests = {"register", "metadata"}
    Payloads <- Up
    MaxRequests = 1
    MaxForeign = 0
    MaxRestarts = 1
    Objects <- Numbers
    StartEntries <- Nothing
PROPERTIES ReadyPodIsServed
CHECK_DEADLOCK FALSE
