SPECIFICATION FairSpec
CONSTANTS
    esc = esc
    lf = lf
    cr = cr
    a = a
    Byte <- MCByte
    Separators = {}
    Escape = esc
    LF = lf
    CR = cr
    Clients = {c1, c2, c3}
    Nobody = Nobody
    Chunks <- MCChunks
    Counts <- MCCounts
    MaxCalls = 4
INVARIANTS
    TypeOK
    ActsOnWhatItRead
    EveryRowOnce
    RowsInOrder
PROPERTIES
    PoisonedIsFinal
    EveryCallEnds
CHECK_DEADLOCK FALSE
