\* Strings of two bytes and one UTF-16 unit.
SPECIFICATION LocalSpec
CONSTANTS
  c1 = c1
  w1 = w1
  Child <- MCChild
  Waiter <- MCWaiter
  MaxSend = 1
  ChunkBytes = 2
  Dest = {"d1"}
  HasFinal = {"d1"}
  MaxChunk = 3
  MaxPipes = 2
  HighWaterMark = 2
  Bytes <- MCBytes
  Units <- MCUnits
  Dir = {"w", "r"}
  Workspace = "w"
  Root = "r"
  Name = {"f"}
  MaxCommand = 2
  MaxWork = 2
  MaxLength = 2
  MaxHistory = 2
  MaxRows = 2
  Words <- MCWords
  Instances = {"pipe"}
INVARIANTS EveryDrainComes
CHECK_DEADLOCK FALSE
