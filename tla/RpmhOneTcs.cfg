\* One active TCS, callers that do not wait.
SPECIFICATION Spec
CONSTANTS
  NumActive = 1
  NumBits = 3
  NumCmdsPerTcs = 16
  Vregs = {ldo1, ldo2}
  Voltages = {3300}
  Modes = {7}
  Paced = FALSE
  Bsp = FALSE
  None = None
INVARIANTS Exclusive BusyCoversRunning
PROPERTIES RefinesChannel
CHECK_DEADLOCK FALSE
