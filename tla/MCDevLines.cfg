\* A process does I/O on the second disk.
CONSTANTS
  Installed <- MCInstalled
  Proc = {p1}
  Halves = {"first"}
SPECIFICATION DevSpec
INVARIANTS
  BlockedUntilAnswer
CHECK_DEADLOCK FALSE
