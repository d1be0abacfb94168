\* Two processes, one at each half of a terminal.
CONSTANTS
  MAXPROC = 2
  MaxPrio = 2
  DEFAULT_PRIORITY = 1
  Priorities = {1}
  NoKey = NoKey
  Sem = {}
  Raw = {}
  Disk = {}
  TermRecv = {r1}
  TermTransm = {t1}
  Key <- MCKey
  InitVals = {0}
  SemMax = 1
  RootMasked = FALSE
SPECIFICATION Spec
PROPERTIES
  WokenOnCompletion
