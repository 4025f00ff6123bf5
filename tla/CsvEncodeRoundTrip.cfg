SPECIFICATION Spec
CONSTANTS
    sep = sep
    quote = quote
    lf = lf
    cr = cr
    equals = equals
    wide = wide
    number = number
    Byte <- MCByte
    LF = lf
    CR = cr
    Dialects <- MCOptions
    Options <- MCOptions
    Terms = {number}
    TermText <- MCTermText
    Unmappable = {wide}
    Tables <- MCTables
INVARIANT RoundTrips
