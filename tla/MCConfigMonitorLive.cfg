SPECIFICATION FairSpec
CONSTANTS
    routes = routes
    own = own
    zuulRoute = zuulRoute
    svc = svc
    apiGateway = apiGateway
    gateway = gateway
    stuck = stuck
    NoKey = NoKey
    NoName = NoName
    NoHash = NoHash
    NoInstance = NoInstance
    Absent = Absent
    Keys = {routes}
    Names = {zuulRoute, svc, apiGateway}
    NameOf <- Name
    Watched = {routes}
    RouteConfigMap = zuulRoute
    GatewayNames = {apiGateway}
    Instances = {gateway, stuck}
    ServiceOf <- Service
    Moves = FALSE
    Hung = {stuck}
    Workers = {w1}
    Contents = {a, b}
    Orders = {1}
    Capacity = 1
    StartMaps <- Start
    StartHeld <- StartData
    MaxChanges = 3
    MaxRefreshers = 3
PROPERTIES NotifyReturns OwedIsTold
CHECK_DEADLOCK FALSE
