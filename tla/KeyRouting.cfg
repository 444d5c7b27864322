SPECIFICATION FairSpec
CONSTANTS
  MaxBytes = 4
  Heads = {2}
  MaxPollers = 3
  MaxReads = 3
INVARIANTS TypeOK BufferOwned SoleInOrder
PROPERTY BufferReturned
CHECK_DEADLOCK FALSE
