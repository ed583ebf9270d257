\* Each part in turn.
SPECIFICATION LocalSpec
CONSTANTS
  c1 = c1
  w1 = w1
  Child <- MCChild
  Waiter <- MCWaiter
  MaxSend = 2
  ChunkBytes = 1
  Dest = {"d1"}
  HasFinal = {"d1"}
  MaxChunk = 3
  MaxPipes = 2
  HighWaterMark = 2
  Bytes <- MCBytes
  Units <- MCUnits
  Dir = {"w", "r"}
  Workspace = "w"
  Root = "r"
  Name = {"f"}
  MaxCommand = 2
  MaxWork = 2
  MaxLength = 2
  MaxHistory = 2
  MaxRows = 2
  Words <- MCWords
  Instances = {"child", "pipe", "shell", "input", "parser", "filters", "rg"}
INVARIANTS LocalTypeOK
INVARIANTS ChildrenEndOnce WaitersAgree MessagesFollowTheModule MessagesInOrder
INVARIANTS PipeInOrder DrainIsComing
INVARIANTS ShellIsTrue CommandsAreTrue
PROPERTIES EveryChildCloses PipeFinishes
\* Every child has ended, a line has been parsed, a file searched.
CHECK_DEADLOCK FALSE
