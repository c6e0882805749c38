SPECIFICATION ChatSpec
CONSTANTS
    MAX_REFINEMENT_ITERATIONS = 1
    MAX_HISTORY_LEN = 2
    ENABLE_QUALITY_GATE = TRUE
    Configured = TRUE
    RedisBacked = FALSE
    MaxEarlier = 0
INVARIANT StreamedIsFinal
