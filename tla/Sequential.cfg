SPECIFICATION Spec
CONSTANTS
  NONE = NONE
  SectionNames = {"MAIN", "B"}
  KeyNames = {"port", "Port", "k"}
  Short = {"*", "B", "k"}
  Lowered <- KeyLowered
  Texts <- KeyTexts
  FirstFiles <- KeyFiles
  LineMax = 4
  MaxSections = 3
  MaxEdits = 2
  PageSize = 6
  Header = 2
  Limit = 2
  SizeMax = 16
  Requests = {0, 1, 2, 3, 4, 5, 14, 15}
  MaxPages = 3
  BufMax = 5
  Words <- StringWords
  LongMax = 99999
  Numbers <- SomeNumbers
  StringSizes = {1, 2, 5}
  Junk = {"nul", "a"}
  BlockSize = 4
  Delim <- MemDelim
  Packets <- MemPackets
  Pieces <- MemPieces
  BitSizes = {0, 3, 8, 10}
  Offsets = {0, 1, 2, 7, 8, 9, 15}
  Masks <- BitMasks
  Starts <- ClockStarts
  Passes <- ClockPasses
  Spans <- TimeSpans
  Offset = 5
  MaxSteps = 3
  LineSize = 5
  Printable = {"a", "b"}
  Names = {"eth0", "eth1"}
  Inet = {"eth0", "eth1"}
  Inet6 = {"eth0"}
  GroupIds = {1, 2}
  MaxSockets = 2
INVARIANT RoundTrip
INVARIANT NothingInvented
INVARIANT BlocksApart
INVARIANT BufferRight
INVARIANT StringHoldsText
INVARIANT AcceptedKept
INVARIANT BitsetIsSet
INVARIANT DeadlineKept
INVARIANT EchoIsLine
INVARIANT LatestSocketRight
CHECK_DEADLOCK FALSE
