\* One student, two requests in flight.
SPECIFICATION Spec
CONSTANTS
  s1 = s1
  h1 = h1
  h2 = h2
  NoStudent = NoStudent
  Students = {s1}
  Handlers = {h1, h2}
  Settings <- MCSettings
  FeeSets <- MCFeeSets
  MaxBills = 2
PROPERTY StudentIdIsFinal
CHECK_DEADLOCK FALSE
