CONSTANTS
  a = a
  b = b
  c = c
  NoOp = NoOp
  NoRepository = NoRepository
  Ops <- MixedOps
  Request <- MixedRequest
  CommandCount <- MixedCommandCount
  Detached <- MixedDetached
  Cancellable <- MixedCancellable
SPECIFICATION Spec
INVARIANTS
  TypeOK
  CommandsSerialPerQueue
  SafeToQuitMeansNoProcess
  QuitCountExact
  PendingCountExact
  NotFoundOnlyAfterTerminal
  CancelledOnlyOnRequest
  CancelLeavesNoPlacedChild
