\* A clock that passes the middle of its range.
CONSTANTS
  MAXPROC = 2
  HALF = 3
  TICKS = 4
  LIVES = 2
  Types <- MCTypes
  Registering <- MCRegistering
  MaxTypes = 1
  Reporting <- MCReporting
SPECIFICATION HandlersSpec
INVARIANTS
  UserTimeExact
  KernelTimeExact
  ResumesOwnState
PROPERTIES
  CpuWithinWallclock
