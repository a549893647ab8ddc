\* A word arrives during a read.
SPECIFICATION Spec
CONSTANTS
  Bytes = {b1, b2}
  Capacity = 5
  MaxRead = 3
  MaxWords = 3
  TxFifoDepth = 2
  RxDuringRead = TRUE
  TimeoutsHappen = FALSE
  None = None
INVARIANT OverwritesOldest
CHECK_DEADLOCK FALSE
