SPECIFICATION Spec
CONSTANTS
    MAX_REFINEMENT_ITERATIONS = 2
    MAX_HISTORY_LEN = 1
    ENABLE_QUALITY_GATE = TRUE
    Configured = TRUE
    RedisBacked = FALSE
    MaxEarlier = 1
INVARIANTS
    TypeOK
    AttemptsAccounted
    GateRespected
    FinalAnswerJudged
    FreshContext
    ConfidentLocalAnswers
PROPERTIES
    GraphStops
