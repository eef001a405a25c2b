SPECIFICATION FairSpec
CONSTANTS
  Reindeer = {r1, r2}
  Elf = {e1, e2}
  Santa = Santa
  Nobody = Nobody
  TrioSize = 1
  SpuriousWakeups = TRUE
PROPERTIES ReindeerGoesOnHoliday
