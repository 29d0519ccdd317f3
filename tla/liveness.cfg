SPECIFICATION FairSpec
CONSTANTS
  N = 2
  InitialAmounts <- MCTwo
  InvoiceType = "ADMISSION"
  AllowPartial = TRUE
  LateFeeType = "NONE"
  LateFeeValue = 0
  Attempts = {t1}
  Handlers = {h1, h2}
  Refunds = {}
  LateRuns = {}
  Deltas <- MCNone
  MaxPayable = 3
  CaptureDrift <- MCMayDrift
  NoAttempt = none
PROPERTIES
  CapturedIsSettled
CHECK_DEADLOCK FALSE
