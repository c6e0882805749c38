SPECIFICATION Spec
CONSTANTS
    r1 = r1
    r2 = r2
    r3 = r3
    default = default
    Requests = {r1, r2}
    Settings <- OnlyRedisStreams
    Sessions <- OneSession
    SessionOf <- EveryRequest
    Earlier <- SameEarlier
    EarlierMessages = 1
    MAX_HISTORY_LEN = 2
    Entries = {"list", "value"}
    MaxReads = 1
    MaxRestarts = 0
PROPERTY ListsKept
