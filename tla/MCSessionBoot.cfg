SPECIFICATION Spec
CONSTANTS
  MaxFlushes = 2
  MaxResets = 2
  MaxGestures = 3
INVARIANTS
  ScreensAgree
  WindowFollowsScreen
  
  PendingIsScheduled
CHECK_DEADLOCK FALSE
