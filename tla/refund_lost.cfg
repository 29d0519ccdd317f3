SPECIFICATION Spec
CONSTANTS
  N = 2
  InitialAmounts <- MCThree
  InvoiceType = "ID_CARD"
  AllowPartial = TRUE
  LateFeeType = "NONE"
  LateFeeValue = 0
  Attempts = {t1}
  Handlers = {h1}
  Refunds = {r1}
  LateRuns = {}
  Deltas <- MCNone
  MaxPayable = 3
  CaptureDrift <- MCNoDrift
  NoAttempt = none
INVARIANTS
  ReturnedStaysReserved
CHECK_DEADLOCK FALSE
