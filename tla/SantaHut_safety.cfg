SPECIFICATION Spec
CONSTANTS
  Reindeer = {r1, r2}
  Elf = {e1, e2, e3, e4}
  Santa = Santa
  Nobody = Nobody
  TrioSize = 3
  SpuriousWakeups = TRUE
SYMMETRY Symmetry
INVARIANTS TypeOK CountExact TrioExact WakeBalanced SantaHearsCall NoStaleFlag
PROPERTIES ImplementsProblem
