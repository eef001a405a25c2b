CONSTANTS
  Client = {c1, c2}
  Nobody = Nobody
  MaxCommands = 1
  MaxId = 1
  QueueSize = 2
  MaySignal = TRUE
  MayStop = TRUE
SYMMETRY Symmetry
SPECIFICATION Spec
INVARIANTS TypeOK ListingComplete
CHECK_DEADLOCK FALSE
