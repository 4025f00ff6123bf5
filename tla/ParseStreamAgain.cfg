SPECIFICATION Spec
CONSTANTS
    sep = sep
    esc = esc
    lf = lf
    cr = cr
    a = a
    b = b
    bom1 = bom1
    bom2 = bom2
    key1 = key1
    key2 = key2
    Nil = Nil
    Byte <- MCByte
    Unit <- MCUnit
    Separators <- MCSeparators
    Escape = esc
    LF = lf
    CR = cr
    Mark <- MCMark
    Code <- MCCode
    EncodedMark <- MCEncodedMark
    MaxInput = 12
    Jobs <- MCJobs
    MinBuffer = 2
    MaxRuns = 2
INVARIANT EveryRunYieldsSource
CHECK_DEADLOCK FALSE
