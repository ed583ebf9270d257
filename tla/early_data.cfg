CONSTANTS
  MaxId = 1
  MaxUp = 1
  MaxDown = 0
  Buffer = 1
  DefaultBuffer = 1
  ListenChoices = {TRUE}
  MaxStreams = 1
  Throttled = FALSE
SPECIFICATION Spec
INVARIANTS EarlyDataIsKept
CHECK_DEADLOCK FALSE
