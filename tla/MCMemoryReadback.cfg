CONSTANTS
  Bases = {b1, b2}
  Memories = {m1, m2}
  Kernels = {f1, f2}
  SystemStates = {x1}
  RootSets = {d1}
  Configs = {g1}
  Claims = {0}
  MaxAdmitted = 0

SPECIFICATION HardeningSpec
INVARIANT ReadbackNeedsMemory
CHECK_DEADLOCK FALSE
