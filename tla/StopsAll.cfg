SPECIFICATION Spec
CONSTANTS
    t1 = t1
    t2 = t2
    t3 = t3
    chat = chat
    i1 = i1
    i2 = i2
    s1 = s1
    s2 = s2
    Tasks = {t1, t2, t3}
    Items = {chat}
    Instances = {i1, i2}
    ItemOf <- OneItem
    HomeOf <- TwoHomes
    Primary = i1
    Stops = {s1}
    RedisTasks = {}
    RedisStops = {s1}
    Deployments = {FALSE}
    MaxFailures = 1
    NoTask = NoTask
    NoItem = NoItem
    Nowhere = Nowhere
PROPERTIES
    StopsAll
CHECK_DEADLOCK FALSE
