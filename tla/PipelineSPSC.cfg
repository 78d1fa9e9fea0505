CONSTANTS
    Producer = {p}
    Consumer = {c}
    Closer = {k}
    Item = {a, b, d}
    Size = 2
    Policies = {"WAIT", "DROP"}
    NoThread = NoThread
    NULL = NULL
SPECIFICATION FairSpec
INVARIANT NoLostWakeup
PROPERTIES PutEnds Delivery
CHECK_DEADLOCK FALSE
