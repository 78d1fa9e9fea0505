SPECIFICATION StrSpec
CONSTANTS
  BufMax = 2
  Junk = {"a", "nul"}
  Words <- SomeWords
  LongMax = 99
  Numbers = {7}
INVARIANT MemorySafe
CHECK_DEADLOCK FALSE
