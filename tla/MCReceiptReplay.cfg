CONSTANTS
  NONE = NONE
  agent = agent
  stranger = stranger
  owner = owner
  root = root
  x = x
  y = y
  e1 = e1
  e2 = e2
  e3 = e3
  e4 = e4
  l1 = l1
  l2 = l2
  l3 = l3
  p1 = p1
  p2 = p2
  t1 = t1
  t2 = t2
  Actors <- MCActors
  Actions <- MCActions
  EvidenceIds <- MCEvidenceIds
  LeaseIds <- MCLeaseIds
  ProvIds <- MCProvIds
  TargetIds <- MCTargetIds
  TrustedRoots <- MCTrustedRoots
  RequireProvenance = TRUE
  Calls = {c1}
  Promoters = {w1}
  Seeds <- RegistrySeeds
  Proposals <- SomeProposals
  DirectCalls <- SomeDirectCalls
  Promotions <- SomePromotions
  RevocableLeases = {}
  RevocableRecords = {}
  LosableEvidence = {e1}
  AgentPuts <- SomeAgentPuts
  LeasePuts = {}
  RecordPuts = {}
  TargetPuts <- SomeTargetPuts
  MaxEpoch = 2
  AlteredVersions = {1, 2}
  MaxClock = 0

SPECIFICATION ReplaySpec

INVARIANTS
  TypeOK
  EffectIsObserved
  ReplayIsExplained
  PassVouches

CHECK_DEADLOCK FALSE
