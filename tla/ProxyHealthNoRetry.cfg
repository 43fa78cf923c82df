SPECIFICATION TrafficSpec
CONSTANTS
    u1 = u1
    u2 = u2
    api = api
    web = web
    Urls = {u1, u2}
    Services = {api}
    Servers <- TwoServers
    Requests = {r1}
    MaxGen = 1
    FailureThreshold = 1
    SuccessThreshold = 1
    Window = 1
    RecoveryInterval = 1
PROPERTIES
    RetriedAfterInterval
