CONSTANTS
  Client = {c1, c2, c3}
  Nobody = Nobody
  MaxCommands = 0
  MaxId = 0
  QueueSize = 2
  MaySignal = TRUE
  MayStop = TRUE
SYMMETRY Symmetry
SPECIFICATION Spec
INVARIANTS RegistryFaithful
CHECK_DEADLOCK FALSE
