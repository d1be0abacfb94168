\* Three processes of two priorities, a semaphore and both halves of a terminal: every
\* interleaving of completions with system calls, the timer and the polling loop of
\* int_handler.  The first process runs with device interrupts masked, as on uMPS.
CONSTANTS
  MAXPROC = 3
  MaxPrio = 2
  DEFAULT_PRIORITY = 1
  Priorities = {2}
  NoKey = NoKey
  Sem = {s1}
  Raw = {}
  Disk = {}
  TermRecv = {r1}
  TermTransm = {t1}
  Key <- MCKey
  InitVals = {0}
  SemMax = 1
  RootMasked = TRUE
SPECIFICATION Spec
INVARIANTS
  NucleusInv
  EveryPcbInOnePlace
  SemaphoreCountsBlocked
  BlockedAtTerminalWaits
  WaitsForWork
PROPERTIES
  SchedulerSpec
  QueuesSpec
  SemaphoresSpec
