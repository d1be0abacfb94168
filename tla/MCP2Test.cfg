\* The test program as it is, with messages of one character and s[] of two semaphores,
\* preempted at most twice, anywhere.
CONSTANTS
  MAXPROC = 20
  MaxPrio = 1
  DEFAULT_PRIORITY = 1
  Priorities = {1}
  NoKey = NoKey
  Sem <- MCSem
  Raw <- MCRaw
  Disk = {}
  TermRecv = {}
  TermTransm <- MCTermTransm
  Key <- MCKey
  InitVals = {0, 1}
  SemMax = 20
  RootMasked = TRUE
  SLICES = 2
  MSGLEN = 1
  MAXSEM = 1
  ROUNDS = 4
  NOLEAVES = 4
SPECIFICATION TestFairSpec
INVARIANTS
  NoError
  CorruptOnlyWhenPreempted
  PrintExclusive
  LockNotLost
  PrintSucceeds
PROPERTIES
  TestEnds
