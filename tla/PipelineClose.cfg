CONSTANTS
    Producer = {p}
    Consumer = {c}
    Closer = {k}
    Item = {a}
    Size = 1
    Policies = {"WAIT"}
    NoThread = NoThread
    NULL = NULL
SPECIFICATION Spec
INVARIANT CloseWakesEveryone
CHECK_DEADLOCK FALSE
