CONSTANTS
  Client = {c1, c2}
  Nobody = Nobody
  MaxCommands = 1
  MaxId = 1
  QueueSize = 6
  MaySignal = FALSE
  MayStop = TRUE
SPECIFICATION FairSpec
PROPERTIES InterruptedListEnds
CHECK_DEADLOCK FALSE
