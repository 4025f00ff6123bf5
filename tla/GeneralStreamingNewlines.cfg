SPECIFICATION Spec
CONSTANTS
    sep = sep
    esc = esc
    lf = lf
    cr = cr
    Byte <- MCByte
    LF = lf
    CR = cr
    Dialects <- WithShortNewline
    DefaultMaxBuffer = 100
    Limits <- MCLimits
    MaxInput = 4
INVARIANTS
    StreamingIsBatch
