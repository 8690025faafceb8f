SPECIFICATION FairServerSpec
CONSTANTS
    p1 = p1
    i1 = i1
    i2 = i2
    NoPod = NoPod
    NoId = NoId
    NoInstance = NoInstance
    ApiErrors = FALSE
    Pods = {p1}
    Monitored = {p1}
    Ids = {i1, i2}
    Workers = {w1}
    IdsOf <- PodIds
    Missed = {}
    MaxPodChanges = 0
    Handlers = {h1}
    Boot = boot
    Readers = {r1}
    Requests = {}
    Payloads <- Up
    MaxRequests = 0
    MaxForeign = 1
    MaxRestarts = 0
    Objects <- Numbers
    StartEntries <- OneCustom
PROPERTIES RemovedIsForgotten
CHECK_DEADLOCK FALSE
