CONSTANTS
  Trunks = {t1, t2}
  MaxSpawns = 2
  NoTrunk = NoTrunk
  MaxPending = 2
  MaxChannel = 1
SPECIFICATION FairSpec
INVARIANTS
  LiveShellsRegistered
  InputReachesOwnTrunk
  AnsweredExitIsOwn
PROPERTIES
  SpawningSettles
