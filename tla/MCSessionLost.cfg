SPECIFICATION Spec
CONSTANTS
  MaxFlushes = 2
  MaxResets = 0
  MaxGestures = 3
INVARIANT LastWriteStored
CHECK_DEADLOCK FALSE
