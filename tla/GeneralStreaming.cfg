SPECIFICATION Spec
CONSTANTS
    sep = sep
    esc = esc
    lf = lf
    cr = cr
    Byte <- MCByte
    LF = lf
    CR = cr
    Dialects <- Plain
    DefaultMaxBuffer = 100
    Limits <- MCLimits
    MaxInput = 6
INVARIANTS
    TypeOK
    StreamingIsBatch
    ReadsOn
    StrictStopsAtViolation
