CONSTANTS
  a = a
  b = b
  c = c
  NoOp = NoOp
  NoRepository = NoRepository
  Ops <- WorktreeOps
  Request <- WorktreeRequest
  CommandCount <- WorktreeCommandCount
  Detached <- WorktreeDetached
  Cancellable <- WorktreeOps
SPECIFICATION Spec
INVARIANTS
  CommandsSerialPerRepository
