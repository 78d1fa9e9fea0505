CONSTANTS
    Bufsize = 3
    StreamLen = 5
    DelimLen = 2
    DelimSets = {{}, {2}, {1, 4}}
    JunkMax = 4
    MaxPut = 4
SPECIFICATION Spec
INVARIANTS StreamIntact ViewIntact OutputIntact PutInside
CHECK_DEADLOCK FALSE
