SPECIFICATION MemSpec
CONSTANTS
  BlockSize = 2
  Delim <- Newline
  Packets <- Blank
  Pieces <- SomeText
INVARIANT TooBigIsFalse
CHECK_DEADLOCK FALSE
