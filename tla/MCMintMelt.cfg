SPECIFICATION MeltSpec
CONSTANTS
  y1 = y1
  y2 = y2
  b1 = b1
  b2 = b2
  q1 = q1
  q2 = q2
  q3 = q3
  Ys = {y1, y2}
  Outs = {b1}
  InputsAmount <- MCInputsAmount
  InputFeePpk = 800
  NoOp = NoOp
  Ops = {o1, o2}
  MeltOps = {o1, o2}
  Quotes = {q1, q2, q3}
  QuoteAmount <- MCQuoteAmount
  FeeReserve <- MCFeeReserve
  LookupId <- TwoInvoices
  InternalIds = {"l2"}
  PayFees = {0, 2}
  Denominations = {1, 2, 4}
  Pollers = {p1}
  Retries = FALSE
  CheckErrors = TRUE
  MsatChecks = FALSE
  LnLag = TRUE
  MeltDbErrors = TRUE
  Rotates = TRUE
  MeltMaxCrashes = 2
SYMMETRY Symmetry
CONSTRAINT RotationBound
INVARIANTS
  PaymentHoldsInputs
  PaidMeansPaid
  MeltNothingStranded
  
  MeltTablesAgree
PROPERTIES
  ToldSpentStays
CHECK_DEADLOCK FALSE
