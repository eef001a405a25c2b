SPECIFICATION FairSpec
CONSTANTS
  Reindeer = {r1}
  Elf = {e1, e2, e3}
  Santa = Santa
  Nobody = Nobody
  TrioSize = 2
  SpuriousWakeups = FALSE
PROPERTIES EverybodyStarts GroupServed ElfReturnsToWork
