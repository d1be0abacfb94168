\* Liveness: three processes, a disk and a half of a terminal, on lines of their own.  The
\* first process has a lower priority than the others.
CONSTANTS
  MAXPROC = 3
  MaxPrio = 2
  DEFAULT_PRIORITY = 1
  Priorities = {2}
  NoKey = NoKey
  Sem = {}
  Raw = {}
  Disk = {d1}
  TermRecv = {r1}
  TermTransm = {}
  Key <- MCKey
  InitVals = {0}
  SemMax = 1
  RootMasked = FALSE
SPECIFICATION FairSpec
PROPERTIES
  ReadyRuns
  DeviceWakes
  TerminateEnds
