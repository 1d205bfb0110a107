CONSTANTS
  f1 = f1
  f2 = f2
  Folders = {f1, f2}
  NoPath = NoPath
  Cards = {"chat", "terminal"}
  DefaultCard = "chat"
  RetentionDays = 0
  MaxTrunks = 2
  MaxProjects = 2
  MaxDay = 1
  MaxGeneration = 2
  MaxDeletions = 2
SPECIFICATION Spec
SYMMETRY FolderSymmetry
INVARIANTS
  StoresAgree
  ResolvingIsAwaited
PROPERTIES
  OvertakenAnswersChangeNothing
  SwitchingKeepsCards
  SweepSparesPinnedAndRecent
