SPECIFICATION Spec
CONSTANTS
    r1 = r1
    r2 = r2
    r3 = r3
    default = default
    Requests = {r1, r2, r3}
    Settings <- OnlyInMemory
    Sessions <- OneSession
    SessionOf <- EveryRequest
    Earlier <- SameEarlier
    EarlierMessages = 0
    MAX_HISTORY_LEN = 3
    Entries = {"value"}
    MaxReads = 1
    MaxRestarts = 0
INVARIANT HistoryGathers
