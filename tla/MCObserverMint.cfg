CONSTANTS
  Bases = {b1}
  Memories = {m1}
  Kernels = {f1}
  SystemStates = {x1, x2}
  RootSets = {d1, d2}
  Configs = {g1, g2}
  Claims = {0, 1}
  MaxAdmitted = 1

SPECIFICATION HardeningSpec
PROPERTIES ObserverMintsNothing
CHECK_DEADLOCK FALSE
