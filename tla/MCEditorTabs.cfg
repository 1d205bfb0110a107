CONSTANTS
  p1 = p1
  r1 = r1
  r2 = r2
  Paths = {p1}
  Roots = {r1, r2}
  RootOf <- FolderOf
  NoRoot = NoRoot
  Empty = "empty"
  Contents = {"empty", "text"}
  MaxUntitled = 1
  MaxCalls = 2
SPECIFICATION Spec
CHECK_DEADLOCK FALSE
INVARIANTS
  TabsWellFormed
  QuitSavesFiles
  QuitAwaitsDialog
  BusyTabsAreAwaited
PROPERTIES
  FailedSaveKeepsEdits
