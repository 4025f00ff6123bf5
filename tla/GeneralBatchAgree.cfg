SPECIFICATION BatchSpec
CONSTANTS
    sep = sep
    quote = quote
    lf = lf
    cr = cr
    MaxLength = 4
    Byte <- MCByte
    LF = lf
    CR = cr
    Dialects <- Separate
    Texts <- NonEmptyTexts
INVARIANTS
    StrategiesAgree
