SPECIFICATION ChatSpec
CONSTANTS
    MAX_REFINEMENT_ITERATIONS = 1
    MAX_HISTORY_LEN = 2
    ENABLE_QUALITY_GATE = TRUE
    Configured = TRUE
    RedisBacked = TRUE
    MaxEarlier = 0
INVARIANTS
    ChatTypeOK
    ThinkSection
    StreamEnd
    NoAnswerLost
    SessionKeepsWhatClientGot
    SuccessWasJudged
PROPERTIES
    ImplementsContract
