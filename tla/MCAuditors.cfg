CONSTANTS
  Ids = {o1, o2}
  Candidates = {a, b, c}
  Costs = {1, 2}
  Times = {0, 1}
  NONE = NONE
  Weights <- MCWeights
  Budgets <- MCBudgets
  Claims = {0, 1, 2}
  Bottom = Bottom
  Scales <- MCScales
  Ranks <- MCRanks
  EvidenceLists <- MCEvidenceLists
  StateIds = {s1, s2, s3}
  CoarseStates = {c1, c2}
  ContinuationKernels = {k1, k2}
  Coordinates = {r1, r2}
  Values = {v1, v2}
  ActionIds = {a1, a2}
  Scopes = {p1, p2}
  TargetTypes = {t1}
  Effects = {e1, e2}
  MaxStates = 3
  MaxPoints = 3
  MaxActions = 3
  Bases = {b1, b2}
  Memories = {m1, m2, m3}
  Kernels = {f1, f2}
  SystemStates = {x1, x2}
  RootSets = {d1, d2}
  Configs = {g1, g2}
  MaxAdmitted = 2

SYMMETRY Symmetry
SPECIFICATION MCSpec

INVARIANTS
  TypeOK
  PruneIsSound
  BoundHolds
  AuditsTypeOK
  HardeningTypeOK
  ResidualsSettleTheFuture
  ProfileHoldsOfAllPairs
  LabelsDoNotCount
  ReadbackIsReported
  NoMintByReparameterizing

PROPERTIES
  WarningsStand

CHECK_DEADLOCK FALSE
