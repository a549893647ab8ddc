\* No word arrives during a read and no transmission outlasts its wait.
SPECIFICATION FairSpec
CONSTANTS
  Bytes = {b1, b2}
  Capacity = 5
  MaxRead = 3
  MaxWords = 3
  TxFifoDepth = 2
  RxDuringRead = FALSE
  TimeoutsHappen = FALSE
  None = None
INVARIANTS TypeOK NoOverrun
PROPERTIES RefinesQueue WriteReturns
CHECK_DEADLOCK FALSE
