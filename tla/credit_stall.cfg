CONSTANTS
  MaxId = 1
  MaxUp = 3
  MaxDown = 0
  Buffer = 1
  DefaultBuffer = 1
  ListenChoices = {TRUE}
  MaxStreams = 1
  Throttled = FALSE
SPECIFICATION Spec
INVARIANTS CreditComesBack
CHECK_DEADLOCK FALSE
