CONSTANTS
    Thread = {t1, t2, t3, t4}
    NoThread = NoThread
SPECIFICATION Spec
INVARIANTS Accounting ReadersFollowLastWriter StrandedOnlyTogether
PROPERTIES ReadersYield ImplementsRWLock
