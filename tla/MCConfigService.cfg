SPECIFICATION Spec
CONSTANTS
    h1 = h1
    h2 = h2
    v1 = v1
    v2 = v2
    list = list
    apiGateway = apiGateway
    zuulRoute = zuulRoute
    n1 = n1
    n2 = n2
    default = default
    dev = dev
    Nil = Nil
    NoKey = NoKey
    Names <- Keywords
    MaxDepth = 3
    NoYaml = NoYaml
    NullYaml = NullYaml
    BadYaml = BadYaml
    NoMap = NoMap
    NoNamespace = NoNamespace
    Leaves = {v1, v2, list, Nil}
    ListItems <- Items
    Handlers = {h1, h2}
    Services = {apiGateway, zuulRoute}
    RouteConfigMap = zuulRoute
    ApiGateway = apiGateway
    GatewayNames = {apiGateway}
    Namespaces = {n1, n2}
    Registered <- TwoNamespaces
    Profiles = {default, dev}
    DefaultProfile = default
    StartMaps <- Starts
    Saves <- ClientSaves
    Edits <- RouteEdits
    ForeignYaml = {BadYaml}
    ApiErrors = TRUE
    MaxRequests = 2
    MaxForeign = 1
SYMMETRY HandlerSymmetry
INVARIANTS ConfigTypeOK GatewayHoldsNoRoutes SavedIsWritten PresentIsFound
PROPERTIES NotKeepsExisting EditIsExact AddIsExact
CHECK_DEADLOCK FALSE
