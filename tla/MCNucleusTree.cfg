\* Four processes: chains, stars and everything between, of ready, blocked and running
\* ones, torn down from every place of the tree.
CONSTANTS
  MAXPROC = 4
  MaxPrio = 2
  DEFAULT_PRIORITY = 1
  Priorities = {1}
  NoKey = NoKey
  Sem = {s1}
  Raw = {s1}
  Disk = {}
  TermRecv = {}
  TermTransm = {}
  Key <- MCKey
  InitVals = {0}
  SemMax = 1
  RootMasked = FALSE
SPECIFICATION Spec
INVARIANTS
  NoOrphans
  NeverRefusesChild
PROPERTIES
  OnlyProgenyDies
  TerminateShrinks
