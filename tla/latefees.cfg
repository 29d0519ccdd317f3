SPECIFICATION Spec
SYMMETRY Symmetry
CONSTANTS
  N = 2
  InitialAmounts <- MCAdvance
  InvoiceType = "SEMESTER"
  AllowPartial = FALSE
  LateFeeType = "PERCENT"
  LateFeeValue = 60
  Attempts = {t1}
  Handlers = {h1}
  Refunds = {r1}
  LateRuns = {l1, l2}
  Deltas <- MCOneOrLess
  MaxPayable = 4
  CaptureDrift <- MCNoDrift
  NoAttempt = none
INVARIANTS
  PaidWithinAmount
  LedgerAddsUp
  ReportsAgree
PROPERTIES
  LateFeeOnce
CHECK_DEADLOCK FALSE
