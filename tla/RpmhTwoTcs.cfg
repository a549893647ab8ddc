\* Two active TCSs, callers that do not wait.
SPECIFICATION Spec
CONSTANTS
  NumActive = 2
  NumBits = 3
  NumCmdsPerTcs = 16
  Vregs = {ldo1, ldo2}
  Voltages = {3300}
  Modes = {7}
  Paced = FALSE
  Bsp = FALSE
  None = None
INVARIANT OneVotePerResource
CHECK_DEADLOCK FALSE
