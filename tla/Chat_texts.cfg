CONSTANTS
  Client = {c1, c2}
  Nobody = Nobody
  MaxCommands = 2
  MaxId = 0
  QueueSize = 2
  MaySignal = FALSE
  MayStop = FALSE
SYMMETRY Symmetry
SPECIFICATION Spec
INVARIANTS TextsInOrder
PROPERTIES NoTextLost
CHECK_DEADLOCK FALSE
