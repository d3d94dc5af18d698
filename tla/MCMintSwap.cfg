SPECIFICATION Spec
CONSTANTS
  y1 = y1
  y2 = y2
  b1 = b1
  b2 = b2
  Ys <- MCYs
  Outs <- MCOuts
  InputsAmount <- MCInputsAmount
  OutAmount <- MCOutAmount
  OutputsAmount <- MCOutputsAmount
  InputFeePpk = 800
  NoOp = NoOp
  Ops = {o1, o2, o3}
  SwapOps = {o1, o2, o3}
  DbErrors = TRUE
  DeleteSagaFails = TRUE
  AbortedCommitsOk = FALSE
  SecondStart = TRUE
  MaxCrashes = 2
SYMMETRY Symmetry
CONSTRAINT CrashBound
INVARIANTS
  NothingStranded
  SignaturesPaidFor
PROPERTIES
  RefinesLedger
CHECK_DEADLOCK FALSE
