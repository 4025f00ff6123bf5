SPECIFICATION BatchSpec
CONSTANTS
    comma = comma
    quote = quote
    newline = newline
    return = return
    letter = letter
    Byte <- MCByte
    Separators <- MCSeparators
    Escape = quote
    LF = newline
    CR = return
    MaxLength = 6
    Texts <- MCTexts
    Chunk = 3
    MaxInputSize = 7
INVARIANTS
    TypeOK
    CarryIsContext
    IndexIsStructure
    ScanFindsFirstViolation
    ReturnsRowsOfText
    RefusesForAReason
    BoundsInside
    IteratorsAgree
