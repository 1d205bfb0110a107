CONSTANTS
  t1 = t1
  t2 = t2
  main = main
  worktree = worktree
  d = d
  build = build
  f = f
  Roots = {main, worktree}
  Trunks = {t1, t2}
  Folder <- FolderOf
  Checkout <- CheckoutOf
  FirstTrunk = t1
  NoRoot = NoRoot
  NoTrunk = NoTrunk
  DirNames = {d, build}
  FileNames = {f}
  SkipNames = {build}
  NewFileName = f
  NewFolderName = d
  FirstDisk <- Disk
  MaxLength = 3
  MaxScopes = 2
  MaxMounts = 2
  MaxCalls = 2
  MaxEdits = 1
  MaxGestures = 3
SPECIFICATION Spec
CHECK_DEADLOCK FALSE
INVARIANTS
  
  SpinnersAreAwaited
  SearchStaysInRoot
  SearchIsComplete
  
