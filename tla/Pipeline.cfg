CONSTANTS
    Producer = {p1, p2}
    Consumer = {c1, c2}
    Closer = {k, p1}
    Item = {a, b, d, e}
    Size = 3
    Policies = {"WAIT", "DROP"}
    NoThread = NoThread
    NULL = NULL
SPECIFICATION Spec
INVARIANTS Conservation ClosedStaysEmpty NothingLeaks
PROPERTY ImplementsChannel
CHECK_DEADLOCK FALSE
