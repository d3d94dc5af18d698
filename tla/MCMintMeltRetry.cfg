SPECIFICATION MeltSpec
CONSTANTS
  y1 = y1
  y2 = y2
  b1 = b1
  b2 = b2
  q1 = q1
  q2 = q2
  q3 = q3
  Ys = {y1, y2}
  Outs = {b1}
  InputsAmount <- MCInputsAmount
  InputFeePpk = 800
  NoOp = NoOp
  Ops = {o1, o2}
  MeltOps = {o1, o2}
  Quotes = {q1, q2}
  QuoteAmount <- MCQuoteAmount
  FeeReserve <- MCFeeReserve
  LookupId <- OneInvoice
  InternalIds = {}
  PayFees = {0, 2}
  Denominations = {1, 2, 4}
  Pollers = {p1}
  Retries = TRUE
  CheckErrors = FALSE
  MsatChecks = FALSE
  LnLag = TRUE
  MeltDbErrors = FALSE
  Rotates = FALSE
  MeltMaxCrashes = 0
SYMMETRY Symmetry
INVARIANTS
  PaymentHoldsInputs
CHECK_DEADLOCK FALSE
