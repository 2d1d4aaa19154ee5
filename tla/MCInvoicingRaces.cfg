SPECIFICATION Spec
CONSTANTS
  i1 = i1
  i2 = i2
  Invoices = {i1}
  Kind <- OneKind
  Price <- EqualPrice
  LateFee = 2
  Tenders = {2}
  Adjustments <- SmallAdjustments
  MaxCredit = 2
  MaxAttempt = 2
  Workers = {w1, w2}
  StatusRaces = TRUE
  CronOverlap = FALSE
SYMMETRY WorkerSymmetry
INVARIANTS TypeOK AttemptsDistinct RowsMatchGateway OneSuccess SuccessIsConfirmed PaidIsCovered CreditNotNegative
PROPERTY SettledRowsStay
