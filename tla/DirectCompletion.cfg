SPECIFICATION Spec
CONSTANTS
    MaxPieces = 3
    MaxBreaks = 1
INVARIANTS
    NothingMissing
    StreamsOnlyAccepted
PROPERTIES
    RequestEnds
    ChannelClosed
CHECK_DEADLOCK FALSE
