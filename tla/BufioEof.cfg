CONSTANTS
    Bufsize = 2
    StreamLen = 3
    DelimLen = 1
    DelimSets = {{}}
    JunkMax = 0
    MaxPut = 0
SPECIFICATION Spec
INVARIANT EofIsEof
CHECK_DEADLOCK FALSE
