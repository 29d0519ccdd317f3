SPECIFICATION Spec
SYMMETRY Symmetry
CONSTANTS
  N = 2
  InitialAmounts <- MCTwo
  InvoiceType = "ADMISSION"
  AllowPartial = TRUE
  LateFeeType = "NONE"
  LateFeeValue = 0
  Attempts = {t1, t2}
  Handlers = {h1, h2}
  Refunds = {r1, r2}
  LateRuns = {}
  Deltas <- MCNone
  MaxPayable = 3
  CaptureDrift <- MCNoDrift
  NoAttempt = none
INVARIANTS
  TypeOK
  SettledWasCaptured
  PaidIsAllocated
  CapturedIsAccounted
  RefundsWithinPayment
  CancelledHoldsNoMoney
PROPERTIES
  SettledForGood
  PaymentsAreBooked
  InvoiceIsBooked
CHECK_DEADLOCK FALSE
