SPECIFICATION Spec
CONSTANTS
    s1 = s1
    s2 = s2
    s3 = s3
    h1 = h1
    h2 = h2
    Sids = {s1, s2, s3}
    Hosts = {h1, h2}
    HostOf <- TwoHosts
    RedisSids = {s1, s2}
    MaxEdits = 2
    MaxRedisEdits = 1
    Deployments = {TRUE, FALSE}
INVARIANTS
    NothingMissed
    KeptWhileOpen
    LastStopSaved
CHECK_DEADLOCK FALSE
