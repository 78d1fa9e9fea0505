SPECIFICATION Spec
CONSTANTS
  Thread = {t1, t2, t3, t4}
  Limit = 2
  Worker = {w1, w2, w3}
  Observer = {o1, o2}
  Coordinator = c
  UintSize = 4
  Holders = {h1, h2, h3}
  Objects = {m1, m2}
  MaxRefs = 2
  NULL = NULL
  Setters = {s1, s2}
  Waiters = {u1}
  Capacity = 3
  Chunk = 2
  Loggers = {l1, l2}
  Verbose = 1
  MaxCalls = 3
  Nobody = Nobody
INVARIANTS
  Accounting WithinLimit NoLostWakeup
  CountsRunning NobodyLeftAsleep FreedAtRest
  RefsReachLiveMemory FreedByTheLast
  SoleWaiterNeverRaces LinesWhole
PROPERTIES
  ServedUnlessOvertaken
  WaitMeansDone
  FinishEnds
  EventDelivered
CHECK_DEADLOCK FALSE
