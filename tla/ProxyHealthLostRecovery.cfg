SPECIFICATION TrafficSpec
CONSTANTS
    u1 = u1
    u2 = u2
    api = api
    web = web
    Urls = {u1}
    Services = {api}
    Servers <- OneServer
    Requests = {r1, r2}
    MaxGen = 1
    FailureThreshold = 1
    SuccessThreshold = 1
    Window = 1
    RecoveryInterval = 0
PROPERTIES
    AllDownRecovers
