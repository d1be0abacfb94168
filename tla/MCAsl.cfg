\* Three processes over three addresses and as many descriptors: all descriptors in use,
\* all processes behind one, and everything between.
CONSTANTS
  MAXPROC = 3
  SEMDS = 3
  Key = {k1, k2, k3}
  NoKey = NoKey
  Priorities = {1, 2}
SYMMETRY KeySymmetry
SPECIFICATION AslSpec
INVARIANTS
  AslInv
  AlwaysRoom
PROPERTIES
  BlockedQueuesSpec
