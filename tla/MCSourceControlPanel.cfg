CONSTANTS
  t1 = t1
  t2 = t2
  c1 = c1
  c2 = c2
  Trunks = {t1, t2}
  Checkouts = {c1, c2}
  FirstTrunk = t1
  FirstCheckout = c1
  Plain = {c2}
  RemoteActions = {"fetch"}
  FirstFiles = {"working-tree", "staged"}
  Opened = {"working-tree"}
  NoCheckout = NoCheckout
  MaxScopes = 2
  MaxVersion = 1
  MaxRevision = 2
  MaxCalls = 3
  MaxMounts = 2
  MaxRelinks = 1
  MaxGestures = 3
SPECIFICATION Spec
CHECK_DEADLOCK FALSE
INVARIANTS
  ReadYourWrites
  BusyIsAwaited
  
  ListensToBroker
