\* Three pcbs, three priorities: a full queue behind the running process, and aged
\* priorities up to MaxPrio + MAXPROC - 1.
CONSTANTS
  MAXPROC = 3
  MaxPrio = 3
  DEFAULT_PRIORITY = 1
  Priorities <- MCPriorities
SPECIFICATION SchedFairSpec
INVARIANTS
  SchedInv
  PriorityBound
PROPERTIES
  RoundRobin
  WaitShrinks
  NoStarvation
