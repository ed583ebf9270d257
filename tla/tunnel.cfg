CONSTANTS
  MaxId = 2
  MaxUp = 3
  MaxDown = 2
  Buffer = 1
  DefaultBuffer = 1
  ListenChoices = {TRUE, FALSE}
  MaxStreams = 1
  Throttled = TRUE
SPECIFICATION MixedSpec
INVARIANTS TypeOK CreditCap CloseIsPending CloseIsLast EveryHolderIsTold
PROPERTIES ConnectIsAnswered CloseIsLearnt OrphansAreReaped ImplementsPipe
CHECK_DEADLOCK FALSE
