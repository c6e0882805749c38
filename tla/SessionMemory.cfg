SPECIFICATION Spec
CONSTANTS
    r1 = r1
    r2 = r2
    r3 = r3
    default = default
    Requests = {r1, r2, r3}
    Settings <- SafeSettings
    Sessions <- OneSession
    SessionOf <- EveryRequest
    Earlier <- OneLong
    EarlierMessages = 2
    MAX_HISTORY_LEN = 2
    Entries = {"list"}
    MaxReads = 2
    MaxRestarts = 1
INVARIANTS
    OwnHistorySeen
    OneConversation
PROPERTIES
    AllAnswered
