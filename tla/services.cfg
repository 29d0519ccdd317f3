SPECIFICATION ServicesSpec
SYMMETRY Symmetry
CONSTANTS
  N = 3
  MaxAmount = 2
  Totals <- MCTotals
  Plans <- MCPlans
  Waivers <- MCWaivers
  RateCards <- MCRateCards
  Contexts <- MCContexts
  Payers = {p1}
  Runs = {r1, r2}
  MaxCredits = 2
  MaxInvoices = 3
  Clients = {q1, q2}
  NoPassword = NoPassword
  MaxCodes = 3
  Offered = {c1, c2}
  Instructors = {i1, i2}
  NoInstructor = NoInstructor
  Times = {0, 1, 2}
  Planners = {l1}
  Editors = {e1}
  MaxClasses = 2
  Terms = {t1}
  NoTerm = NoTerm
  Counts = {1, 2, 3}
  Office = {o1}
  MaxPolicies = 2
  Kept = Kept
  Taken = {k1, k2}
  CreditHours <- MCCreditHours
  Semesters = {1, 2}
  Papers = {x1, x2}
  PaperMarks = 20
  Scores = {7, 16}
  Payments = {q1, q2}
  ID_TOKEN_TTL_SECONDS = 2
  IdTokenLife = 3
  RefreshTtl = 2
  NoKey = NoKey
  CardRates <- MCCardRates
  CardSemesters = {1}
  Department = 1
  Covered = {TRUE, FALSE}
  MaxReceived = 4
INVARIANTS
  PaymentsAreWaterfalls
  DeltaKeepsPaidMoney
  InstallmentsAreSound
  WaiversCappedAtTuition
  ShownIsBilled
  BilledOnce
  PasswordsAreEarned
  TimetableIsSound
  PlansStayValid
  TranscriptsAgree
  TokensAreAlive
  
CHECK_DEADLOCK FALSE
