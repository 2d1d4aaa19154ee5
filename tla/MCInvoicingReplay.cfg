SPECIFICATION Spec
CONSTANTS
  i1 = i1
  i2 = i2
  Invoices = {i1}
  Kind <- DepositKind
  Price <- EqualPrice
  LateFee = 2
  Tenders = {}
  Adjustments = {}
  MaxCredit = 0
  MaxAttempt = 1
  Workers = {w1, w2}
  StatusRaces = TRUE
  CronOverlap = FALSE
INVARIANT EffectsRunOnce
CHECK_DEADLOCK FALSE
