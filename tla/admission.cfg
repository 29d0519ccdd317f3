\* One student, two requests in flight.
SPECIFICATION Spec
SYMMETRY Symmetry
CONSTANTS
  s1 = s1
  h1 = h1
  h2 = h2
  NoStudent = NoStudent
  Students = {s1}
  Handlers = {h1, h2}
  Settings <- MCSettings
  FeeSets <- MCFeeSets
  MaxBills = 2
INVARIANTS TypeOK OneLiveBill NothingBeforeApproval NextStepIsPossible
PROPERTIES DecisionsStand
CHECK_DEADLOCK FALSE
