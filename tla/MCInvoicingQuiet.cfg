SPECIFICATION FairSpec
CONSTANTS
  i1 = i1
  i2 = i2
  Invoices = {i1}
  Kind <- DepositKind
  Price <- EqualPrice
  LateFee = 2
  Tenders = {2, 4}
  Adjustments = {}
  MaxCredit = 2
  MaxAttempt = 2
  Workers = {w1, w2}
  StatusRaces = FALSE
  CronOverlap = FALSE
CHECK_DEADLOCK FALSE
INVARIANT SettledOnce
INVARIANT PaidHasSuccess
INVARIANT LateFeeOnce
PROPERTY InvoiceLifecycle
PROPERTY ImplementsSettlement
PROPERTY ReceivedIsApplied
