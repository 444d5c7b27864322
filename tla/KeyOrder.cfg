SPECIFICATION Spec
CONSTANTS
  MaxBytes = 4
  Heads = {2}
  MaxPollers = 2
  MaxReads = 4
INVARIANT InOrder
CHECK_DEADLOCK FALSE
