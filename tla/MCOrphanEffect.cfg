CONSTANTS
  NONE = NONE
  agent = agent
  stranger = stranger
  owner = owner
  root = root
  x = x
  y = y
  e1 = e1
  e2 = e2
  e3 = e3
  e4 = e4
  l1 = l1
  l2 = l2
  l3 = l3
  p1 = p1
  p2 = p2
  t1 = t1
  t2 = t2
  Actors <- MCActors
  Actions <- MCActions
  EvidenceIds <- MCEvidenceIds
  LeaseIds <- MCLeaseIds
  ProvIds <- MCProvIds
  TargetIds <- MCTargetIds
  TrustedRoots <- MCTrustedRoots
  RequireProvenance = TRUE
  Calls = {c1}
  Promoters = {}
  Seeds <- OneSeed
  Proposals <- GoodProposal
  DirectCalls = {}
  Promotions = {}
  RevocableLeases = {}
  RevocableRecords = {}
  LosableEvidence = {}
  AgentPuts = {}
  LeasePuts = {}
  RecordPuts = {}
  TargetPuts = {}
  MaxEpoch = 1
  MaxClock = 0

SPECIFICATION Spec

INVARIANT NoOrphanEffect

CHECK_DEADLOCK FALSE
