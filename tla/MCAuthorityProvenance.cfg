CONSTANTS
  NONE = NONE
  p1 = p1
  p2 = p2
  p3 = p3
  agent = agent
  owner = owner
  root = root
  x = x
  y = y
  ProvIds <- MCProvIds
  Actors <- MCActors
  Actions <- MCActions
  TrustedRoots <- MCTrustedRoots
  Stores <- MCStores
  Leases <- MCLeases
  Instants <- MCInstants
  RevocationInstants <- MCRevocationInstants

SPECIFICATION FairSpec

INVARIANTS
  TypeOK
  AcceptedIsBacked
  RefusedForCause

PROPERTIES
  Terminates
  WalkRunsOut

CHECK_DEADLOCK FALSE
