SPECIFICATION Spec
CONSTANTS
    routes = routes
    own = own
    zuulRoute = zuulRoute
    svc = svc
    apiGateway = apiGateway
    gateway = gateway
    stuck = stuck
    NoKey = NoKey
    NoName = NoName
    NoHash = NoHash
    NoInstance = NoInstance
    Absent = Absent
    Keys = {routes, own}
    Names = {zuulRoute, svc, apiGateway}
    NameOf <- Name
    Watched = {routes, own}
    RouteConfigMap = zuulRoute
    GatewayNames = {apiGateway}
    Instances = {gateway}
    ServiceOf <- Service
    Moves = TRUE
    Hung = {}
    Workers = {w1, w2}
    Contents = {a, b}
    Orders = {o1, o2}
    Capacity = 1
    StartMaps <- Starts
    StartHeld <- AnyHeld
    MaxChanges = 2
    MaxRefreshers = 2
SYMMETRY Symmetry
INVARIANTS MonitorTypeOK RecordFollowsMap OwedIsOnTheWay
PROPERTIES MonitorKeyedWork FeedSpec
CHECK_DEADLOCK FALSE
