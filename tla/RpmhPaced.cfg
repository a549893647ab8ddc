\* Callers wait for the previous command; the firmware's driver is there too.
SPECIFICATION FairSpec
CONSTANTS
  NumActive = 2
  NumBits = 3
  NumCmdsPerTcs = 16
  Vregs = {ldo1, ldo2}
  Voltages = {3300}
  Modes = {7}
  Paced = TRUE
  Bsp = TRUE
  None = None
INVARIANT TypeOK
PROPERTIES RefinesChannel DisownsOnlyForeign BusyReleased
CHECK_DEADLOCK FALSE
