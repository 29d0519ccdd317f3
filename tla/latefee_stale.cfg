SPECIFICATION Spec
CONSTANTS
  N = 2
  InitialAmounts <- MCThree
  InvoiceType = "SEMESTER"
  AllowPartial = FALSE
  LateFeeType = "PERCENT"
  LateFeeValue = 60
  Attempts = {t1}
  Handlers = {h1}
  Refunds = {}
  LateRuns = {l1}
  Deltas <- MCOneOrLess
  MaxPayable = 4
  CaptureDrift <- MCNoDrift
  NoAttempt = none
PROPERTIES
  LateFeeOnlyWhileOwing
CHECK_DEADLOCK FALSE
