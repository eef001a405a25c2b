SPECIFICATION FairSpec
CONSTANTS
  grid_width = 2
  grid_height = 2
  num_threads = 2
  MaxFrames = 3
  Unknown = Unknown
INVARIANTS TypeOK OneLate
PROPERTIES ImplementsFrames ThreadsCatchUp
