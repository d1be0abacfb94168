\* One pcb besides that of the first process, and no handlers of processes.
CONSTANTS
  MAXPROC = 2
  HALF = 3
  TICKS = 4
  LIVES = 2
  Types <- MCTypes
  Registering = {}
  MaxTypes = 0
  Reporting <- MCReporting
SPECIFICATION BirthsSpec
INVARIANTS
  ReportsOwnTimes
