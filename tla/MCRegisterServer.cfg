SPECIFICATION ServerSpec
CONSTANTS
    p1 = p1
    i1 = i1
    i2 = i2
    NoPod = NoPod
    NoId = NoId
    NoInstance = NoInstance
    ApiErrors = TRUE
    Pods = {p1}
    Monitored = {p1}
    Ids = {i1, i2}
    Workers = {w1}
    IdsOf <- PodIds
    Missed = {p1}
    MaxPodChanges = 2
    Handlers = {h1}
    Boot = boot
    Readers = {}
    Requests = {"register", "delete", "metadata"}
    Payloads <- Up
    MaxRequests = 2
    MaxForeign = 0
    MaxRestarts = 0
    Objects <- Numbers
    StartEntries <- Nothing
INVARIANTS ServerTypeOK
PROPERTIES EntriesAreIsolated
CHECK_DEADLOCK FALSE
