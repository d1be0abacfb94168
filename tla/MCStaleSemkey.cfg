\* A process that has blocked once is terminated while it is ready.
CONSTANTS
  MAXPROC = 3
  MaxPrio = 2
  DEFAULT_PRIORITY = 1
  Priorities = {1}
  NoKey = NoKey
  Sem = {s1}
  Raw = {}
  Disk = {}
  TermRecv = {}
  TermTransm = {}
  Key <- MCKey
  InitVals = {0}
  SemMax = 1
  RootMasked = FALSE
SPECIFICATION Spec
INVARIANTS
  FreedNotReady
