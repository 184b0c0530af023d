CONSTANTS
  NONE = NONE
  Firestore = firestore
  r1 = r1
  r2 = r2
  r3 = r3
  Requests = {r1, r2}
  Deployments <- CloudRunForTwo
  Instants = {1, 3}

SPECIFICATION Spec

INVARIANT RevokedCaseBlocks

CHECK_DEADLOCK FALSE
