\* Two processes at the disk.
CONSTANTS
  MAXPROC = 2
  MaxPrio = 2
  DEFAULT_PRIORITY = 1
  Priorities = {1}
  NoKey = NoKey
  Sem = {}
  Raw = {}
  Disk = {d1}
  TermRecv = {}
  TermTransm = {}
  Key <- MCKey
  InitVals = {0}
  SemMax = 1
  RootMasked = FALSE
SPECIFICATION Spec
INVARIANTS
  BlockedAtDiskWaits
