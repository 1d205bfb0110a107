CONSTANTS
  a = a
  b = b
  c = c
  NoOp = NoOp
  NoRepository = NoRepository
  Ops <- MixedOps
  Request <- WaiterRequest
  CommandCount <- WaiterCommandCount
  Detached <- WaiterDetached
  Cancellable <- WaiterCancellable
SPECIFICATION FairSpec
PROPERTIES
  ImplementsSerialOperations
  EveryOperationEnds
