CONSTANTS
  NONE = NONE
  Firestore = firestore
  r1 = r1
  r2 = r2
  r3 = r3
  Requests = {r1, r2, r3}
  Deployments <- EveryDeployment
  Instants = {1, 3}

SPECIFICATION Spec

SYMMETRY Symmetry

INVARIANTS
  TypeOK
  OutcomeAsDocumented
  UndisturbedOutcome
  SurplusHasSource

CHECK_DEADLOCK FALSE
