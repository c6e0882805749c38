SPECIFICATION Spec
CONSTANTS
    a = a
    b = b
    x = x
    y = y
    ServerOf <- OneEach
    Servers = {a, b}
    Primary = a
    Models = {m}
    Sids = {x, y}
    Deployments = {TRUE, FALSE}
    TIMEOUT_DURATION = 0
    MaxStalls = 1
    MaxCrashes = 1
    NoServer = NoServer
    Dead = Dead
    None = None
INVARIANTS
    CleanerHoldsLock
PROPERTIES
    StaleRemoved
    ExpiredStaysOut
CHECK_DEADLOCK FALSE
