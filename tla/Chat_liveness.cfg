CONSTANTS
  Client = {c1, c2}
  Nobody = Nobody
  MaxCommands = 1
  MaxId = 1
  QueueSize = 8
  MaySignal = FALSE
  MayStop = FALSE
SPECIFICATION FairSpec
PROPERTIES InitAnswered ListCompletes
