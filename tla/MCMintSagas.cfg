SPECIFICATION MCSpec
CONSTANTS
  y1 = y1
  y2 = y2
  b1 = b1
  b2 = b2
  q1 = q1
  q3 = q3
  Ys = {y1, y2}
  Outs = {b1, b2}
  InputsAmount <- MCInputsAmount
  OutAmount <- MCOutAmount
  OutputsAmount <- MCOutputsAmount
  InputFeePpk = 800
  NoOp = NoOp
  Ops = {s1, s2, m1}
  SwapOps = {s1, s2}
  MeltOps = {m1}
  DbErrors = FALSE
  DeleteSagaFails = FALSE
  AbortedCommitsOk = FALSE
  SecondStart = FALSE
  MaxCrashes = 2
  Quotes = {q1, q3}
  QuoteAmount <- MCQuoteAmount
  FeeReserve <- MCFeeReserve
  LookupId <- MCLookupId
  InternalIds = {"l2"}
  PayFees = {0}
  Denominations = {1, 2, 4}
  Pollers = {p1}
  Retries = FALSE
  CheckErrors = FALSE
  MsatChecks = FALSE
  LnLag = TRUE
  MeltDbErrors = FALSE
  Rotates = TRUE
  MeltMaxCrashes = 2
INVARIANTS
  FailedLeavesNothing
  NoProofPaysTwice
PROPERTIES
  CrashedInputsResolved
  ChangeReachesClient
CHECK_DEADLOCK FALSE
