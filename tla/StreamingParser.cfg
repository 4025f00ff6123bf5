SPECIFICATION FairSpec
CONSTANTS
    sep = sep
    esc = esc
    lf = lf
    cr = cr
    a = a
    Byte <- MCByte
    Separators <- MCSeparators
    Escape = esc
    LF = lf
    CR = cr
    DefaultMaxBuffer = 100
    Limits <- MCLimits
    MaxInput = 6
INVARIANTS
    TypeOK
    BufferIsWindow
    QuoteIsParity
    RowsAreLines
    ScanCutsRows
    ViolationIsFirst
    FinalIsWholeText
    CompactedEnough
PROPERTIES
    ImplementsCsvStream
    FeedEnds
