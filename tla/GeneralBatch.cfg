SPECIFICATION BatchSpec
CONSTANTS
    sep = sep
    quote = quote
    lf = lf
    cr = cr
    MaxLength = 6
    Byte <- MCByte
    LF = lf
    CR = cr
    Dialects <- Separate
    Texts <- MCTexts
INVARIANTS
    StrategiesAgreeOnTerminated
    StrategiesRefuseAlike
    ReadsCsvText
